---- MODULE Spec2Model ----
(***************************************************************************)
(* A model of the git workflow orchestrator of cicd-template: the three    *)
(* commands to-self, to-test and to-main and the helpers they share        *)
(* (commitIfDirty, getPreferredRemote, pullIfPossible, pushCurrentBranch,  *)
(* ensureLocalBranchFromRemote, mergeRemoteBranchIntoCurrent).             *)
(*                                                                         *)
(* Text is a sequence of tokens.  A token is one character (" ", "/", ":", *)
(* "(", ")", "!") or a run of lower-case letters ("a", "feat", "origin").  *)
(* The string operations of the code (trim, indexOf, slice, the regular    *)
(* expression of hasConventionalPrefix, template literals) are computed on *)
(* these sequences.                                                        *)
(*                                                                         *)
(* Every awaited git command that changes something (add, commit, pull,    *)
(* fetch, merge, push, checkout) may fail, and so may the ls-remote probe  *)
(* and the branch query of restoreBranch.  The read-only queries           *)
(* (checkIsRepo, branch, status, diff --cached, getRemotes) answer from    *)
(* the repository state.                                                   *)
(***************************************************************************)
EXTENDS Integers, Sequences, FiniteSets, TLC

VARIABLES
    \* the repository
    head,         \* the branch checked out (HEADREF when detached)
    locals,       \* the local branches
    remotes,      \* the remote names, in listing order
    upstream,     \* branch -> its tracking configuration
    remoteHeads,  \* the branches the remote hosts
    conflicted,   \* the conflicted paths of the working tree
    \* one invocation
    run,          \* number of invocations started
    pc,           \* the step the invocation is at
    cmd,          \* "toSelf" | "toTest" | "toMain"
    branchOpt,    \* options.branch (Undef when absent)
    cwdOpt,       \* the cwd option the command was given (Undef when absent)
    baseDir,      \* the directory the git object of the invocation is bound to
    isRepo,       \* the answer of checkIsRepo for the working directory
    target,       \* targetBranch
    source,       \* currentBranch as detected at the start
    remote,       \* the remote getPreferredRemote resolved
    cin,          \* what commitIfDirty was given and asked
    log,          \* the git commands executed, in order, with their result
    prompts,      \* the prompts shown, in order
    warnings,     \* the warnings logged
    reported,     \* the conflicted paths written to stderr
    err,          \* the error the invocation ended with (NoErr on success)
    primary,      \* the error thrown inside toTest's try block
    firstPushed,  \* branches a successful push -u has published (history)
    \* one call of runCdDeployment
    cd            \* the hooks given, the stage reached, the hook calls made

vars == <<head, locals, remotes, upstream, remoteHeads, conflicted, run, pc,
          cmd, branchOpt, cwdOpt, baseDir, isRepo, target, source, remote, cin, log, prompts,
          warnings, reported, err, primary, firstPushed, cd>>

\* the variables of the git workflows
flowVars == <<head, locals, remotes, upstream, remoteHeads, conflicted, run, pc,
              cmd, branchOpt, cwdOpt, baseDir, isRepo, target, source, remote, cin, log, prompts,
              warnings, reported, err, primary, firstPushed>>

callVars == <<run, cmd, branchOpt, cwdOpt, baseDir, isRepo, target, source>>

repoVars == <<head, locals, remotes, upstream, remoteHeads>>

----------------------------------------------------------------------------
(* Bounds *)

MaxRuns == 2
MaxTail == 3
MaxRemotes == 2

----------------------------------------------------------------------------
(* Text *)

Undef == <<"<undefined>">>
Null == <<"<null>">>

SP == " "
SLASH == "/"

IsSpace(t) == t \in {" ", "\t", "\n"}

LowerTokens ==
    {"a", "b", "x", "feat", "fix", "to", "docs", "style", "refactor", "perf",
     "test", "chore", "revert", "merge", "sync", "bogus", "main", "core",
     "api", "origin", "upstream", "fork"}

IsLower(t) == t \in LowerTokens

RECURSIVE TrimStart(_)
TrimStart(s) ==
    IF s # <<>> /\ IsSpace(Head(s)) THEN TrimStart(Tail(s)) ELSE s

RECURSIVE TrimEnd(_)
TrimEnd(s) ==
    IF s # <<>> /\ IsSpace(s[Len(s)]) THEN TrimEnd(SubSeq(s, 1, Len(s) - 1))
    ELSE s

\* String.prototype.trim
Trim(s) == TrimEnd(TrimStart(s))

\* JavaScript truthiness of an optional string: undefined and "" are falsy
Truthy(s) == s # Undef /\ s # <<>>

\* s.indexOf(t), 0-based, -1 when absent
IndexOf(s, t) ==
    IF \E i \in 1..Len(s) : s[i] = t
    THEN (CHOOSE i \in 1..Len(s) : s[i] = t /\ \A j \in 1..(i - 1) : s[j] # t) - 1
    ELSE -1

\* s.slice(0, n)
SliceTo(s, n) == SubSeq(s, 1, n)

\* /\s/.test(s)
HasSpace(s) == \E i \in 1..Len(s) : IsSpace(s[i])

\* /[()]/.test(s)
HasParen(s) == \E i \in 1..Len(s) : s[i] \in {"(", ")"}

\* all sequences over alphabet A of length at most n
RECURSIVE SeqsUpTo(_, _)
SeqsUpTo(A, n) ==
    IF n = 0 THEN {<<>>}
    ELSE LET shorter == SeqsUpTo(A, n - 1)
         IN  shorter \cup {Append(s, a) : s \in {t \in shorter : Len(t) = n - 1}, a \in A}

----------------------------------------------------------------------------
(* Branch and remote names *)

FEAT == <<"feat">>
FEATX == <<"feat", "/", "x">>
TEST == <<"test">>
MAIN == <<"main">>
HEADREF == <<"HEAD">>
ORIGIN == <<"origin">>
UPSTREAM == <<"upstream">>
FORK == <<"fork">>

Branches == {FEAT, TEST, MAIN}

NoUp == [kind |-> "none", remote |-> <<>>, branch |-> <<>>]
Tracking(r, b) == [kind |-> "remote", remote |-> r, branch |-> b]
LocalUp(b) == [kind |-> "local", remote |-> <<".">>, branch |-> b]

\* what `git rev-parse --abbrev-ref --symbolic-full-name @{u}` prints:
\* "<remote>/<branch>" for a remote-tracking upstream, "<branch>" for an
\* upstream that is a local branch
UpstreamRefText(cfg) ==
    IF cfg.kind = "remote" THEN cfg.remote \o <<SLASH>> \o cfg.branch
    ELSE cfg.branch

\* getUpstreamRef: the trimmed output, null when the command fails (no
\* upstream configured) or prints nothing
GetUpstreamRef(cfg) ==
    IF cfg.kind = "none" THEN Null
    ELSE LET out == Trim(UpstreamRefText(cfg))
         IN  IF Len(out) > 0 THEN out ELSE Null

\* getRemoteFromUpstream
GetRemoteFromUpstream(up) ==
    LET slashIndex == IndexOf(up, SLASH)
    IN  IF slashIndex <= 0 THEN Null ELSE SliceTo(up, slashIndex)

NoRemoteFound == [ok |-> FALSE, name |-> <<>>]
Found(r) == [ok |-> TRUE, name |-> r]

SeqContains(names, r) == \E i \in 1..Len(names) : names[i] = r

\* getPreferredRemote, given the upstream configuration of the current
\* branch and the remote names in listing order
GetPreferredRemote(cfg, names) ==
    LET up == GetUpstreamRef(cfg)
        fromUp == IF up # Null THEN GetRemoteFromUpstream(up) ELSE Null
    IN  IF up # Null /\ fromUp # Null THEN Found(fromUp)
        ELSE IF SeqContains(names, ORIGIN) THEN Found(ORIGIN)
        ELSE IF Len(names) > 0 THEN Found(names[1])
        ELSE NoRemoteFound

----------------------------------------------------------------------------
(* Commit messages *)

CommitTypes ==
    {<<"feat">>, <<"fix">>, <<"to">>, <<"docs">>, <<"style">>, <<"refactor">>,
     <<"perf">>, <<"test">>, <<"chore">>, <<"revert">>, <<"merge">>, <<"sync">>}

\* isRecognizedCommitType
IsRecognizedCommitType(value) ==
    IF ~Truthy(value) THEN FALSE ELSE value \in CommitTypes

\* number of leading lower-case tokens of t
RECURSIVE LeadingLower(_)
LeadingLower(t) ==
    IF t # <<>> /\ IsLower(Head(t)) THEN 1 + LeadingLower(Tail(t)) ELSE 0

\* the regular expression /^[a-z]+(\([^)]+\))?!?:\s+/ on t: the position
\* after the optional scope group that starts at p (0 when it cannot match)
AfterScopeGroup(t, p) ==
    IF p <= Len(t) /\ t[p] = "("
    THEN LET closes == {j \in (p + 1)..Len(t) : t[j] = ")"}
         IN  IF closes = {} THEN 0
             ELSE LET j == CHOOSE k \in closes : \A l \in closes : k <= l
                  IN  IF j >= p + 2 THEN j + 1 ELSE 0
    ELSE p

MatchesPrefixPattern(t) ==
    LET n == LeadingLower(t)
        q == AfterScopeGroup(t, n + 1)
        r == IF q > 0 /\ q <= Len(t) /\ t[q] = "!" THEN q + 1 ELSE q
    IN  /\ n >= 1
        /\ q > 0
        /\ r + 1 <= Len(t)
        /\ t[r] = ":"
        /\ IsSpace(t[r + 1])

\* hasConventionalPrefix
HasConventionalPrefix(message) == MatchesPrefixPattern(Trim(message))

\* normalizeScope of config.ts: null for a scope that is blank or holds
\* whitespace or parentheses
NormalizeScope(value) ==
    LET trimmed == Trim(value)
    IN  IF trimmed = <<>> \/ HasSpace(trimmed) \/ HasParen(trimmed) THEN Null
        ELSE trimmed

\* the distinct elements of a sequence, first occurrences kept in order
RECURSIVE Unique(_)
Unique(xs) ==
    IF xs = <<>> THEN <<>>
    ELSE LET init == Unique(SubSeq(xs, 1, Len(xs) - 1))
             x == xs[Len(xs)]
         IN  IF SeqContains(init, x) THEN init ELSE Append(init, x)

\* loadCicdConfigScopes, given the "scopes" array of the configuration file
\* (Null: no file, an unreadable file, or no array)
LoadCicdConfigScopes(raw) ==
    IF raw = Null THEN Null
    ELSE LET normalized == SelectSeq([i \in 1..Len(raw) |-> NormalizeScope(raw[i])],
                                     LAMBDA s : s # Null)
             unique == Unique(normalized)
         IN  IF Len(unique) > 0 THEN unique ELSE Null

\* the validate function of promptCommitScope's free-text input
ScopeInputValid(value) ==
    LET trimmed == Trim(value)
    IN  IF trimmed = <<>> THEN TRUE
        ELSE IF HasSpace(trimmed) THEN FALSE
        ELSE IF HasParen(trimmed) THEN FALSE
        ELSE TRUE

\* the validate function of promptCommitSubject
SubjectInputValid(value) == Len(Trim(value)) > 0

\* a mutant: no blank is put after the colon
FinalMessageNoBlank(message, type, scope) ==
    IF HasConventionalPrefix(message) \/ type = Undef THEN message
    ELSE IF scope # <<>> THEN type \o <<"(">> \o scope \o <<")", ":">> \o Trim(message)
    ELSE type \o <<":">> \o Trim(message)

\* a mutant: the scope is left out of the composed message
FinalMessageNoScope(message, type, scope) ==
    IF HasConventionalPrefix(message) \/ type = Undef THEN message
    ELSE type \o <<":", SP>> \o Trim(message)

\* a mutant: the type is put in front of a message that has a prefix already
FinalMessageAlwaysPrefix(message, type, scope) ==
    IF type = Undef THEN message
    ELSE IF scope # <<>> THEN type \o <<"(">> \o scope \o <<")", ":", SP>> \o Trim(message)
    ELSE type \o <<":", SP>> \o Trim(message)

\* finalMessage of commitIfDirty; type is Undef when no type applies
FinalMessage(message, type, scope) ==
    IF HasConventionalPrefix(message) \/ type = Undef THEN message
    ELSE IF scope # <<>> THEN type \o <<"(">> \o scope \o <<")", ":", SP>> \o Trim(message)
    ELSE type \o <<":", SP>> \o Trim(message)

----------------------------------------------------------------------------
(* Errors, log entries and control flow *)

\* detail is the text the message carries besides its fixed wording
NoErr == [kind |-> "none", detail |-> <<>>]
Error(kind, detail) == [kind |-> kind, detail |-> detail]

\* the messages of the thrown errors, by kind
NotAGitRepository == Error("NotAGitRepository", <<>>)
DetachedHead == Error("DetachedHead", <<>>)
InvalidSourceBranch == Error("InvalidSourceBranch", <<>>)
NoRemoteConfigured == Error("NoRemoteConfigured", <<>>)
UnknownCommitType == Error("UnknownCommitType", <<>>)
MissingCommitMetadata == Error("MissingCommitMetadata", <<>>)
MergeConflict(rerun) == Error("MergeConflict", <<rerun>>)
SyncFailed == Error("SyncFailed", <<>>)
\* an error of simple-git itself, thrown on by the helpers as it is
GitError == Error("GitError", <<>>)

\* a command run through the git object of the invocation, or through
\* runCommandCapture with its cwd: what was run, on which branch, in which
\* directory, and how it ended
Cmd(op, on, r, b, flag, msg, res) ==
    [op |-> op, on |-> on, remote |-> r, branch |-> b, flag |-> flag,
     msg |-> msg, res |-> res, dir |-> baseDir]

Paths == {"a.txt", "b.txt"}

\* what status.conflicted can list after a failed pull or merge: nothing,
\* or both paths
ConflictedAfter == {{}, Paths}

Workflows == {"toSelf", "toTest", "toMain"}

\* the name each command gives the helpers for the rerun hint
RerunName(c) ==
    CASE c = "toSelf" -> "to-self"
      [] c = "toTest" -> "to-test"
      [] c = "toMain" -> "to-main"

\* a mutant: to-main asks for the merge request before it pushes
PlanMrBeforePush(c, same) ==
    CASE c = "toSelf" -> <<"commit", "resolve", "pull", "push">>
      [] c = "toMain" -> <<"commit", "resolve", "pull", "mr", "push">>
      [] c = "toTest" /\ same -> <<"resolve", "commit", "pull", "push">>
      [] c = "toTest" /\ ~same ->
            <<"resolve", "commit", "pull", "push", "ensure", "pullTarget",
              "merge", "pushTarget", "restore">>

\* a mutant: to-test on its target runs the statements of to-self
PlanSameAsToSelf(c, same) ==
    CASE c = "toSelf" -> <<"commit", "resolve", "pull", "push">>
      [] c = "toMain" -> <<"commit", "resolve", "pull", "push", "mr">>
      [] c = "toTest" /\ same -> <<"commit", "resolve", "pull", "push">>
      [] c = "toTest" /\ ~same ->
            <<"resolve", "commit", "pull", "push", "ensure", "pullTarget",
              "merge", "pushTarget", "restore">>

\* a mutant: the target branch is pushed before the merge
PlanPushBeforeMerge(c, same) ==
    CASE c = "toSelf" -> <<"commit", "resolve", "pull", "push">>
      [] c = "toMain" -> <<"commit", "resolve", "pull", "push", "mr">>
      [] c = "toTest" /\ same -> <<"resolve", "commit", "pull", "push">>
      [] c = "toTest" /\ ~same ->
            <<"resolve", "commit", "pull", "push", "ensure", "pullTarget",
              "pushTarget", "merge", "restore">>

\* the helpers each command awaits, in the order of its statements
Plan(c, same) ==
    CASE c = "toSelf" -> <<"commit", "resolve", "pull", "push">>
      [] c = "toMain" -> <<"commit", "resolve", "pull", "push", "mr">>
      [] c = "toTest" /\ same -> <<"resolve", "commit", "pull", "push">>
      [] c = "toTest" /\ ~same ->
            <<"resolve", "commit", "pull", "push", "ensure", "pullTarget",
              "merge", "pushTarget", "restore">>

\* the step that follows `step` when it returns normally
NextStep(c, same, step) ==
    LET plan == Plan(c, same)
        i == CHOOSE k \in 1..Len(plan) : plan[k] = step
    IN  IF i < Len(plan) THEN plan[i + 1] ELSE "done"

\* the steps inside the try { ... } finally { restoreBranch } of toTest
InTry(c, same, step) ==
    c = "toTest" /\ ~same /\ step \in {"ensure", "pullTarget", "merge", "pushTarget"}

Same == source = target

\* the helper at pc returns normally
Advance ==
    /\ pc' = NextStep(cmd, Same, pc)
    /\ UNCHANGED <<err, primary>>

\* a mutant: the error is noted and the next helper is awaited all the same
ThrowAndGoOn(e) ==
    /\ pc' = NextStep(cmd, Same, pc)
    /\ err' = e
    /\ primary' = primary

\* the helper at pc throws e: inside the try block the finally clause runs
\* next, and anywhere else the error ends the invocation
Throw(e) ==
    IF InTry(cmd, Same, pc)
    THEN /\ pc' = "restore"
         /\ primary' = e
         /\ err' = err
    ELSE /\ pc' = "done"
         /\ err' = e
         /\ primary' = primary

\* a mutant: every pull and push is given the source branch
BranchArgAlwaysSource == source

\* the branch a pull or push step is given
BranchArg == IF pc \in {"pullTarget", "pushTarget"} THEN target ELSE source

----------------------------------------------------------------------------
(* Invocation: option handling and the checks before the first helper *)

DefaultTarget(c) ==
    CASE c = "toTest" -> TEST
      [] c = "toMain" -> MAIN
      [] OTHER -> Undef

\* options.branch?.trim() ? options.branch.trim() : <default>
TargetBranch(c, opt) ==
    IF c = "toSelf" THEN Undef
    ELSE IF opt # Undef /\ Truthy(Trim(opt)) THEN Trim(opt)
    ELSE DefaultTarget(c)

\* a mutant: to-main does not compare the current branch with the target
PreambleErrorNoTargetCheck(c, repoOk, current, tgt) ==
    IF ~repoOk THEN NotAGitRepository
    ELSE IF current = <<>> \/ current = HEADREF THEN DetachedHead
    ELSE NoErr

\* a mutant: the result of checkIsRepo is not looked at
PreambleErrorNoRepoCheck(c, repoOk, current, tgt) ==
    IF current = <<>> \/ current = HEADREF THEN DetachedHead
    ELSE IF c = "toMain" /\ current = tgt THEN InvalidSourceBranch
    ELSE NoErr

\* the checks every command makes first: checkIsRepo, the current branch,
\* and for to-main the comparison with the target
PreambleError(c, repoOk, current, tgt) ==
    IF ~repoOk THEN NotAGitRepository
    ELSE IF current = <<>> \/ current = HEADREF THEN DetachedHead
    ELSE IF c = "toMain" /\ current = tgt THEN InvalidSourceBranch
    ELSE NoErr

NoCommitInput ==
    [called |-> FALSE, tree |-> "clean", message |-> Undef, type |-> Undef,
     tty |-> FALSE, subject |-> Undef, ctype |-> Undef, scope |-> <<>>,
     final |-> Undef]

BranchOpts == {Undef, <<SP, "feat", SP>>}

\* process.cwd()
ProcessDir == <<"/", "proc">>

\* path.resolve of one path: an absolute path is kept, a relative one is
\* taken from the process directory
ResolvePath(path) ==
    IF Head(path) = "/" THEN path ELSE ProcessDir \o <<"/">> \o path

\* `const cwd = ...`, the baseDir of simpleGit: toMain reads options.cwd,
\* toTest and toSelf call getCwd() whatever they were given
BaseDir(c, dirOpt) ==
    IF c = "toMain" /\ Truthy(dirOpt) THEN ResolvePath(dirOpt) ELSE ProcessDir

\* a command is started with one of the working-directory options dirOpts,
\* while fewer than limit have been started
InvokeWith(dirOpts, limit) ==
    /\ pc \in {"idle", "done"}
    /\ run < limit
    /\ \E c \in Workflows, opt \in BranchOpts, dirOpt \in dirOpts, repoOk \in BOOLEAN :
          LET tgt == TargetBranch(c, opt)
              e == PreambleError(c, repoOk, head, tgt)
          IN  /\ cmd' = c
              /\ branchOpt' = IF c = "toSelf" THEN Undef ELSE opt
              /\ cwdOpt' = dirOpt
              /\ baseDir' = BaseDir(c, dirOpt)
              /\ isRepo' = repoOk
              /\ target' = tgt
              /\ source' = head
              /\ err' = e
              /\ pc' = IF e # NoErr THEN "done" ELSE Plan(c, head = tgt)[1]
    /\ run' = run + 1
    /\ remote' = Null
    /\ cin' = NoCommitInput
    /\ log' = <<>>
    /\ prompts' = <<>>
    /\ warnings' = {}
    /\ reported' = {}
    /\ primary' = NoErr
    /\ conflicted' = {}
    /\ UNCHANGED <<cd, repoVars, firstPushed>>

\* the commands started without a working-directory option
FlowCwdOpts == {Undef}

Invoke == InvokeWith(FlowCwdOpts, MaxRuns)

\* getPreferredRemote as awaited by the three commands
ResolveRemote ==
    /\ pc = "resolve"
    /\ LET r == GetPreferredRemote(upstream[head], remotes)
       IN  IF r.ok
           THEN /\ remote' = r.name
                /\ Advance
           ELSE /\ remote' = remote
                /\ Throw(NoRemoteConfigured)
    /\ UNCHANGED <<cd, repoVars, callVars, conflicted, cin, log, prompts,
                   warnings, reported, firstPushed>>

----------------------------------------------------------------------------
(* commitIfDirty *)

Range(f) == {f[i] : i \in DOMAIN f}

CUSTOM == <<"__custom__">>

\* what the operator may type at the prompts (validation decides what is
\* accepted), and the scopes arrays a configuration file may hold
SubjectInputs == {<<>>, <<SP>>, <<"a">>, <<SP, "a", SP>>, <<"fix", ":", SP, "a">>}
PromptTypeChoices == {<<"feat">>, <<"sync">>}
ScopeInputs == {<<>>, <<SP>>, <<"api">>, <<SP, "api", SP>>, <<"a", SP, "b">>, <<"(", "x", ")">>}
ConfigFiles == {Null, << <<SP, "core">>, <<"a", SP, "b">>, <<"core">> >>, << <<"(", "x", ")">> >>}

\* promptCommitSubject: the trimmed answer, once the validation accepts it
SubjectAnswers == {Trim(raw) : raw \in {r \in SubjectInputs : SubjectInputValid(r)}}

\* promptCommitScope: the scope returned and the prompts shown, for a
\* configuration file whose scopes array is cfgRaw
ScopeOutcomes(cfgRaw) ==
    LET scopes == LoadCicdConfigScopes(cfgRaw)
        typed == {Trim(raw) : raw \in {r \in ScopeInputs : ScopeInputValid(r)}}
    IN  IF scopes # Null
        THEN {[scope |-> a, asked |-> <<"scopeList">>] : a \in {<<>>} \cup Range(scopes)}
             \cup {[scope |-> t, asked |-> <<"scopeList", "scopeInput">>] : t \in typed}
        ELSE {[scope |-> t, asked |-> <<"scopeInput">>] : t \in typed}

\* a mutant: options.commitType is taken as it is
TypeErrorUnchecked(ty) == NoErr

\* the check of options.commitType
TypeError(ty) ==
    IF Truthy(ty) /\ ~IsRecognizedCommitType(Trim(ty)) THEN UnknownCommitType ELSE NoErr

\* a mutant: an unprefixed message without a type is let through
MetadataErrorNoPrefixCheck(message, type, tty) ==
    IF (~Truthy(message) \/ type = Undef) /\ ~tty /\ ~Truthy(message)
    THEN MissingCommitMetadata
    ELSE NoErr

\* the checks made without a terminal: message is the trimmed
\* options.commitMessage (Undef when absent), type the accepted type
MetadataError(message, type, tty) ==
    IF (~Truthy(message) \/ type = Undef) /\ ~tty
    THEN IF ~Truthy(message) THEN MissingCommitMetadata
         ELSE IF type = Undef /\ ~HasConventionalPrefix(message) THEN MissingCommitMetadata
         ELSE NoErr
    ELSE NoErr

Outcome(ops, asked, e, subject, ctype, scope, final) ==
    [ops |-> ops, asked |-> asked, err |-> e, subject |-> subject,
     ctype |-> ctype, scope |-> scope, final |-> final]

GitOp(op, msg, res) == [op |-> op, msg |-> msg, res |-> res]

\* a mutant: the scope is asked for on every terminal
ShouldPromptScopeOnTty(m, tty) == tty

\* shouldPromptScope
ShouldPromptScope(m, tty) == tty /\ ~Truthy(m)

\* commitIfDirty from "Preparing commit message" on: every way it can end,
\* given options.commitMessage m, options.commitType ty and isTTY
PrepareAndCommit(m, ty, tty) ==
    LET message0 == IF m = Undef THEN Undef ELSE Trim(m)
        type0 == IF Truthy(ty) THEN Trim(ty) ELSE Undef
        inBlock == ~Truthy(message0) \/ type0 = Undef
        askSubject == inBlock /\ ~Truthy(message0)
        subjects == IF askSubject THEN SubjectAnswers ELSE {message0}
        AskType(message1) == inBlock /\ type0 = Undef /\ ~HasConventionalPrefix(message1)
        Types(message1) == IF AskType(message1) THEN PromptTypeChoices ELSE {type0}
        AskScope(message1, type1) ==
            /\ ShouldPromptScope(m, tty)
            /\ type1 # Undef
            /\ Truthy(message1)
            /\ ~HasConventionalPrefix(message1)
        Scopes(message1, type1) ==
            IF AskScope(message1, type1)
            THEN UNION {ScopeOutcomes(cfg) : cfg \in ConfigFiles}
            ELSE {[scope |-> <<>>, asked |-> <<>>]}
        Asked(message1, sc) ==
            (IF askSubject THEN <<"subject">> ELSE <<>>)
            \o (IF AskType(message1) THEN <<"type">> ELSE <<>>)
            \o sc.asked
    IN  IF TypeError(ty) # NoErr
        THEN {Outcome(<<>>, <<>>, TypeError(ty), Undef, Undef, <<>>, Undef)}
        ELSE IF MetadataError(message0, type0, tty) # NoErr
        THEN {Outcome(<<>>, <<>>, MetadataError(message0, type0, tty), Undef, Undef, <<>>, Undef)}
        ELSE UNION { UNION { UNION {
                 LET final == FinalMessage(message1, type1, sc.scope)
                 IN  {Outcome(<<GitOp("commit", final, "ok")>>, Asked(message1, sc),
                              NoErr, message1, type1, sc.scope, final),
                      Outcome(<<GitOp("commit", final, "fail")>>, Asked(message1, sc),
                              GitError, message1, type1, sc.scope, Undef)}
                 : sc \in Scopes(message1, type1)}
                 : type1 \in Types(message1)}
                 : message1 \in subjects}

\* a mutant: the type is checked before anything is staged
CommitOutcomesCheckFirst(tree, m, ty, tty) ==
    IF tree = "clean"
    THEN {Outcome(<<>>, <<>>, NoErr, Undef, Undef, <<>>, Undef)}
    ELSE IF TypeError(ty) # NoErr
    THEN {Outcome(<<>>, <<>>, TypeError(ty), Undef, Undef, <<>>, Undef)}
    ELSE {Outcome(<<GitOp("add", <<>>, "fail")>>, <<>>, GitError, Undef, Undef, <<>>, Undef)}
         \cup IF tree = "unstaged"
              THEN {Outcome(<<GitOp("add", <<>>, "ok")>>, <<>>, NoErr, Undef, Undef, <<>>, Undef)}
              ELSE {[o EXCEPT !.ops = <<GitOp("add", <<>>, "ok")>> \o o.ops]
                    : o \in PrepareAndCommit(m, ty, tty)}

\* a mutant: the message is prepared and committed whatever git reports
CommitOutcomesAlwaysCommit(tree, m, ty, tty) ==
    {Outcome(<<GitOp("add", <<>>, "fail")>>, <<>>, GitError, Undef, Undef, <<>>, Undef)}
    \cup {[o EXCEPT !.ops = <<GitOp("add", <<>>, "ok")>> \o o.ops]
          : o \in PrepareAndCommit(m, ty, tty)}

\* commitIfDirty: every way it can end.  tree is what git reports: "clean"
\* (status lists no file), "unstaged" (files are listed but `git add -A`
\* leaves the staged diff empty) or "dirty"
CommitOutcomes(tree, m, ty, tty) ==
    IF tree = "clean"
    THEN {Outcome(<<>>, <<>>, NoErr, Undef, Undef, <<>>, Undef)}
    ELSE {Outcome(<<GitOp("add", <<>>, "fail")>>, <<>>, GitError, Undef, Undef, <<>>, Undef)}
         \cup IF tree = "unstaged"
              THEN {Outcome(<<GitOp("add", <<>>, "ok")>>, <<>>, NoErr, Undef, Undef, <<>>, Undef)}
              ELSE {[o EXCEPT !.ops = <<GitOp("add", <<>>, "ok")>> \o o.ops]
                    : o \in PrepareAndCommit(m, ty, tty)}

Trees == {"clean", "unstaged", "dirty"}

CommitStep(Msgs, Types, Ttys) ==
    /\ pc = "commit"
    /\ \E tree \in Trees, m \in Msgs, ty \in Types, tty \in Ttys :
         \E o \in CommitOutcomes(tree, m, ty, tty) :
            /\ cin' = [called |-> TRUE, tree |-> tree, message |-> m, type |-> ty,
                       tty |-> tty, subject |-> o.subject, ctype |-> o.ctype,
                       scope |-> o.scope, final |-> o.final]
            /\ log' = log \o [i \in 1..Len(o.ops) |->
                                Cmd(o.ops[i].op, head, <<>>, <<>>, "", o.ops[i].msg, o.ops[i].res)]
            /\ prompts' = prompts \o o.asked
            /\ IF o.err = NoErr THEN Advance ELSE Throw(o.err)
    /\ UNCHANGED <<cd, repoVars, callVars, conflicted, remote, warnings,
                   reported, firstPushed>>

\* the options and the terminal the workflow specification draws from
FlowMessages == {Undef, <<"fix", ":", SP, "a">>}
FlowTypes == {Undef}
FlowTtys == {FALSE}

CommitIfDirty == CommitStep(FlowMessages, FlowTypes, FlowTtys)

----------------------------------------------------------------------------
(* pullIfPossible, pushCurrentBranch *)

\* what `git ls-remote --heads <remote> <branch>` can answer: the probe
\* fails for a name that is no remote, and may fail for any other reason
ProbeAnswers(r, b) ==
    {"error"} \cup (IF SeqContains(remotes, r)
                    THEN {IF b \in remoteHeads THEN "found" ELSE "absent"}
                    ELSE {})

\* a mutant: a failed probe counts as an existing branch
RemoteBranchExistsOnError(answer) == answer # "absent"

\* remoteBranchExists: output.trim().length > 0, and false when the probe
\* throws
RemoteBranchExists(answer) == answer = "found"

HasUpstream == GetUpstreamRef(upstream[head]) # Null

\* canPull of pullIfPossible
CanPull(hasUpstream, exists) == hasUpstream \/ exists

\* a mutant: only one of the conflicted paths is written
ConflictReportFirstOnly(paths) ==
    IF paths = {} THEN {} ELSE {CHOOSE p \in paths : TRUE}

\* the conflicted paths written to stderr in the catch blocks
ConflictReport(paths) == paths

\* the error thrown by the catch blocks of pullIfPossible and
\* mergeRemoteBranchIntoCurrent, from the conflicted paths of the status
SyncError(paths, rerun) ==
    IF paths # {} THEN MergeConflict(rerun) ELSE SyncFailed

PullIfPossible ==
    /\ pc \in {"pull", "pullTarget"}
    /\ LET b == BranchArg
           hasUpstream == HasUpstream
       IN  \E answer \in (IF hasUpstream THEN {"unasked"} ELSE ProbeAnswers(remote, b)) :
             LET probe == IF hasUpstream THEN <<>>
                          ELSE <<Cmd("ls-remote", head, remote, b, "", <<>>, answer)>>
                 pull(res) == IF hasUpstream
                              THEN Cmd("pull", head, <<>>, <<>>, "", <<>>, res)
                              ELSE Cmd("pull", head, remote, b, "", <<>>, res)
             IN  IF ~CanPull(hasUpstream, RemoteBranchExists(answer))
                 THEN /\ log' = log \o probe
                      /\ warnings' = warnings \cup {"skip-pull"}
                      /\ UNCHANGED <<reported, conflicted>>
                      /\ Advance
                 ELSE \/ /\ log' = log \o probe \o <<pull("ok")>>
                         /\ UNCHANGED <<warnings, reported, conflicted>>
                         /\ Advance
                      \/ \E unmerged \in ConflictedAfter :
                            /\ log' = log \o probe \o <<pull("fail")>>
                            /\ conflicted' = unmerged
                            /\ reported' = reported \cup ConflictReport(unmerged)
                            /\ warnings' = warnings
                            /\ Throw(SyncError(unmerged, RerunName(cmd)))
    /\ UNCHANGED <<cd, repoVars, callVars, remote, cin, prompts, firstPushed>>

\* a mutant: -u is passed on every push
PushOptionsAlwaysU(hasUpstream) == "-u"

\* pushOptions of pushCurrentBranch
PushOptions(hasUpstream) == IF hasUpstream THEN "" ELSE "-u"

PushCurrentBranch ==
    /\ pc \in {"push", "pushTarget"}
    /\ LET b == BranchArg
           flag == PushOptions(HasUpstream)
       IN  \/ /\ SeqContains(remotes, remote)
              /\ log' = Append(log, Cmd("push", head, remote, b, flag, <<>>, "ok"))
              /\ remoteHeads' = remoteHeads \cup {b}
              /\ upstream' = IF flag = "-u"
                             THEN [upstream EXCEPT ![b] = Tracking(remote, b)]
                             ELSE upstream
              /\ firstPushed' = IF flag = "-u" THEN firstPushed \cup {b} ELSE firstPushed
              /\ Advance
           \/ /\ log' = Append(log, Cmd("push", head, remote, b, flag, <<>>, "fail"))
              /\ UNCHANGED <<remoteHeads, upstream, firstPushed>>
              /\ Throw(GitError)
    /\ UNCHANGED <<cd, head, locals, remotes, callVars, conflicted, remote, cin,
                   prompts, warnings, reported>>

----------------------------------------------------------------------------
(* ensureLocalBranchFromRemote, mergeRemoteBranchIntoCurrent, restoreBranch *)

\* a mutant: the two ways of creating the branch change places
EnsureActionSwapped(hasLocal, existsOnRemote) ==
    IF hasLocal THEN "checkout"
    ELSE IF existsOnRemote THEN "checkoutLocalBranch"
    ELSE "checkoutBranch"

\* which checkout ensureLocalBranchFromRemote runs
EnsureAction(hasLocal, existsOnRemote) ==
    IF hasLocal THEN "checkout"
    ELSE IF existsOnRemote THEN "checkoutBranch"
    ELSE "checkoutLocalBranch"

EnsureLocalBranchFromRemote ==
    /\ pc = "ensure"
    /\ LET hasLocal == target \in locals
       IN  \E answer \in (IF hasLocal THEN {"unasked"} ELSE ProbeAnswers(remote, target)) :
             LET probe == IF hasLocal THEN <<>>
                          ELSE <<Cmd("ls-remote", head, remote, target, "", <<>>, answer)>>
                 op == EnsureAction(hasLocal, RemoteBranchExists(answer))
                 start == IF op = "checkoutBranch" THEN remote ELSE <<>>
             IN  /\ warnings' = IF op = "checkoutLocalBranch"
                                THEN warnings \cup {"new-target"} ELSE warnings
                 /\ \/ /\ log' = log \o probe \o <<Cmd(op, head, start, target, "", <<>>, "ok")>>
                       /\ head' = target
                       /\ locals' = locals \cup {target}
                       /\ upstream' = IF op = "checkoutBranch"
                                      THEN [upstream EXCEPT ![target] = Tracking(remote, target)]
                                      ELSE upstream
                       /\ Advance
                    \/ /\ log' = log \o probe \o <<Cmd(op, head, start, target, "", <<>>, "fail")>>
                       /\ UNCHANGED <<head, locals, upstream>>
                       /\ Throw(GitError)
    /\ UNCHANGED <<cd, remotes, remoteHeads, callVars, conflicted, remote, cin,
                   prompts, reported, firstPushed>>

MergeRemoteBranchIntoCurrent ==
    /\ pc = "merge"
    /\ LET fetch(res) == Cmd("fetch", head, remote, source, "", <<>>, res)
           merge(res) == Cmd("merge", head, remote, source, "", <<>>, res)
       IN  \/ /\ log' = log \o <<fetch("ok"), merge("ok")>>
              /\ UNCHANGED <<reported, conflicted>>
              /\ Advance
           \/ \* the fetch fails: the working tree is as the pull left it
              /\ log' = log \o <<fetch("fail")>>
              /\ conflicted' = conflicted
              /\ reported' = reported \cup ConflictReport(conflicted)
              /\ Throw(SyncError(conflicted, RerunName(cmd)))
           \/ \E unmerged \in ConflictedAfter :
                 /\ log' = log \o <<fetch("ok"), merge("fail")>>
                 /\ conflicted' = unmerged
                 /\ reported' = reported \cup ConflictReport(unmerged)
                 /\ Throw(SyncError(unmerged, RerunName(cmd)))
    /\ UNCHANGED <<cd, repoVars, callVars, remote, cin, prompts, warnings, firstPushed>>

\* a mutant: a failed restore replaces the error of the try block
AfterRestoreThrowing(thrown, restored) ==
    IF ~restored THEN GitError ELSE thrown

\* the error the invocation ends with after the finally clause: the one the
\* try block threw, whatever restoreBranch met (it catches everything)
AfterRestore(thrown, restored) == thrown

RestoreBranch ==
    /\ pc = "restore"
    /\ \/ \* git.branch() throws
          /\ warnings' = warnings \cup {"restore-failed"}
          /\ err' = AfterRestore(primary, FALSE)
          /\ UNCHANGED <<head, log>>
       \/ /\ head = source
          /\ err' = AfterRestore(primary, TRUE)
          /\ UNCHANGED <<head, log, warnings>>
       \/ /\ head # source
          /\ log' = Append(log, Cmd("checkout", head, <<>>, source, "", <<>>, "ok"))
          /\ head' = source
          /\ err' = AfterRestore(primary, TRUE)
          /\ UNCHANGED warnings
       \/ /\ head # source
          /\ log' = Append(log, Cmd("checkout", head, <<>>, source, "", <<>>, "fail"))
          /\ warnings' = warnings \cup {"restore-failed"}
          /\ err' = AfterRestore(primary, FALSE)
          /\ UNCHANGED head
    /\ pc' = "done"
    /\ UNCHANGED <<cd, locals, remotes, upstream, remoteHeads, callVars,
                   conflicted, remote, cin, prompts, reported, primary, firstPushed>>

----------------------------------------------------------------------------
(* to-main: the merge/pull request *)

\* failed to create merge request via glab / pull request via gh
MergeRequestFailed(tool) == Error("MergeRequestFailed", <<tool>>)
\* no supported MR/PR tool found, with the manual link line when there is one
NoMergeRequestToolAvailable(link) == Error("NoMergeRequestToolAvailable", link)

\* what parseRemoteUrl can make of the remote's URL: null, or a location
\* with one of the three provider tags
ParsedRemotes == {"null", "github", "gitlab", "unknown"}

\* encodeURIComponent on the characters of a branch name
EncodeURIComponent(s) ==
    [i \in 1..Len(s) |->
        CASE s[i] = SLASH -> "%2F"
          [] s[i] = SP -> "%20"
          [] s[i] = ":" -> "%3A"
          [] OTHER -> s[i]]

\* the https://host/owner/repo of a parsed location
BaseUrl == <<"https://host/owner/repo">>

\* a mutant: the branches of the manual link are swapped
BuildCreateMrUrlSwapped(parsed, sourceBranch, targetBranch) ==
    LET src == EncodeURIComponent(sourceBranch)
        tgt == EncodeURIComponent(targetBranch)
    IN  IF parsed = "github"
        THEN BaseUrl \o <<"/compare/">> \o src \o <<"...">> \o tgt \o <<"?expand=1">>
        ELSE IF parsed = "gitlab"
        THEN BaseUrl \o <<"/-/merge_requests/new?merge_request[source_branch]=">> \o tgt
                     \o <<"&merge_request[target_branch]=">> \o src
        ELSE Null

\* buildCreateMrUrl (Null for a provider it does not know)
BuildCreateMrUrl(parsed, sourceBranch, targetBranch) ==
    LET src == EncodeURIComponent(sourceBranch)
        tgt == EncodeURIComponent(targetBranch)
    IN  IF parsed = "github"
        THEN BaseUrl \o <<"/compare/">> \o tgt \o <<"...">> \o src \o <<"?expand=1">>
        ELSE IF parsed = "gitlab"
        THEN BaseUrl \o <<"/-/merge_requests/new?merge_request[source_branch]=">> \o src
                     \o <<"&merge_request[target_branch]=">> \o tgt
        ELSE Null

\* a mutant: the GitHub CLI is preferred unless the provider is gitlab
CandidatesGhFirst(parsed) ==
    IF parsed = "gitlab" THEN <<"glab", "gh">> ELSE <<"gh", "glab">>

\* candidates of createMergeRequest
Candidates(parsed) ==
    IF parsed = "gitlab" THEN <<"glab", "gh">>
    ELSE IF parsed = "github" THEN <<"gh", "glab">>
    ELSE <<"glab", "gh">>

\* a mutant: the link is built whenever the remote was parsed
MrUrlAnyProvider(parsed, sourceBranch, targetBranch) ==
    IF parsed # "null"
    THEN BaseUrl \o <<"/compare/">> \o EncodeURIComponent(targetBranch) \o <<"...">>
                 \o EncodeURIComponent(sourceBranch) \o <<"?expand=1">>
    ELSE Null

\* mrUrl of createMergeRequest
MrUrl(parsed, sourceBranch, targetBranch) ==
    IF parsed # "null" THEN BuildCreateMrUrl(parsed, sourceBranch, targetBranch) ELSE Null

\* the `manual link: <url>` line of the hint, absent when there is no URL
ManualLink(mrUrl) == IF mrUrl # Null THEN <<"manual link: ">> \o mrUrl ELSE <<>>

\* the `which` calls of the loop over the candidates, given the tools on
\* the path: the loop leaves at the first tool found
RECURSIVE Probes(_, _)
Probes(cands, installed) ==
    IF cands = <<>> THEN <<>>
    ELSE IF Head(cands) \in installed THEN <<[tool |-> Head(cands), found |-> TRUE]>>
    ELSE <<[tool |-> Head(cands), found |-> FALSE]>> \o Probes(Tail(cands), installed)

\* the first candidate that `which` finds ("" when there is none)
FirstInstalled(cands, installed) ==
    LET probes == Probes(cands, installed)
    IN  IF probes # <<>> /\ probes[Len(probes)].found THEN probes[Len(probes)].tool ELSE ""

\* the tail of to-main: the remote's URL is read and parsed, then
\* createMergeRequest runs
CreateMergeRequest ==
    /\ pc = "mr"
    /\ \/ \* git remote get-url fails
          /\ ~SeqContains(remotes, remote)
          /\ log' = Append(log, Cmd("get-url", head, remote, <<>>, "", <<>>, "fail"))
          /\ warnings' = warnings
          /\ Throw(GitError)
       \/ /\ SeqContains(remotes, remote)
          /\ \E parsed \in ParsedRemotes, installed \in SUBSET {"glab", "gh"} :
                LET probes == Probes(Candidates(parsed), installed)
                    tool == FirstInstalled(Candidates(parsed), installed)
                    mrUrl == MrUrl(parsed, source, target)
                    base == <<Cmd("get-url", head, remote, <<>>, parsed, <<>>, "ok")>>
                            \o [i \in 1..Len(probes) |->
                                  Cmd("which", head, <<>>, <<>>, probes[i].tool, <<>>,
                                      IF probes[i].found THEN "found" ELSE "absent")]
                IN  /\ warnings' = IF parsed = "null"
                                   THEN warnings \cup {"unparsed-remote"} ELSE warnings
                    /\ IF tool = ""
                       THEN /\ log' = log \o base
                            /\ Throw(NoMergeRequestToolAvailable(ManualLink(mrUrl)))
                       ELSE \/ /\ log' = log \o base \o <<Cmd(tool, head, <<>>, target, "", source, "ok")>>
                               /\ Advance
                            \/ /\ log' = log \o base \o <<Cmd(tool, head, <<>>, target, "", source, "fail")>>
                               /\ Throw(MergeRequestFailed(tool))
    /\ UNCHANGED <<cd, repoVars, callVars, conflicted, remote, cin, prompts,
                   reported, firstPushed>>

----------------------------------------------------------------------------
(* runCdDeployment *)

OptionalHooks == {"preflight", "build", "verify", "rollback", "notify"}

\* what a build hook can return, and what a deploy hook can return
Artifacts == {"docker-image", "file", "none"}
DeployResults == {"result-a", "result-b"}

NoValue == "<none>"

\* the error a hook throws: one per call, so that two throws are told apart
HookError(hook, calls) == [by |-> hook, at |-> Len(calls) + 1]
NoHookError == [by |-> NoValue, at |-> 0]

\* a call of a hook: its arguments besides the context (the artifact or the
\* result in arg, the error in error, the payload's ok in ok), and how it
\* ended ("ok" or "throw") and what it returned
HookCall(hook, arg, error, ok, res, ret) ==
    [hook |-> hook, arg |-> arg, error |-> error, ok |-> ok, res |-> res,
     ret |-> ret]

\* no deployment is running
NoDeployment ==
    [hooks |-> {}, pc |-> "off", calls |-> <<>>, artifact |-> "none",
     result |-> NoValue, error |-> NoHookError, returned |-> NoValue,
     raised |-> NoHookError]

\* a mutant: verify runs before deploy
NextStageVerifyFirst(stage) ==
    CASE stage = "preflight" -> "build"
      [] stage = "build" -> "verify"
      [] stage = "verify" -> "deploy"
      [] stage = "deploy" -> "notify"
      [] stage = "notify" -> "returned"

\* the stage after `stage` in the try block
NextStage(stage) ==
    CASE stage = "preflight" -> "build"
      [] stage = "build" -> "deploy"
      [] stage = "deploy" -> "verify"
      [] stage = "verify" -> "notify"
      [] stage = "notify" -> "returned"

\* the argument a stage's hook is called with besides the context
StageArg(stage) ==
    CASE stage = "deploy" -> cd.artifact
      [] stage = "verify" -> cd.result
      [] stage = "notify" -> cd.result
      [] OTHER -> NoValue

\* the call of a stage's hook in the try block
StageCall(stage, res, ret) ==
    HookCall(stage, StageArg(stage), NoHookError,
             IF stage = "notify" THEN "true" ELSE NoValue, res, ret)

\* the try block: the stage at cd.pc.  A hook that was not given is passed
\* over; a hook that throws hands its error to the catch block
TryStage(stage) ==
    /\ cd.pc = stage
    /\ IF stage # "deploy" /\ stage \notin cd.hooks
       THEN cd' = [cd EXCEPT !.pc = NextStage(stage),
                             !.returned = IF stage = "notify" THEN cd.result ELSE NoValue]
       ELSE \/ \E value \in (CASE stage = "build" -> Artifacts
                               [] stage = "deploy" -> DeployResults
                               [] OTHER -> {NoValue}) :
                  cd' = [cd EXCEPT
                           !.calls = Append(cd.calls, StageCall(stage, "ok", value)),
                           !.artifact = IF stage = "build" THEN value ELSE cd.artifact,
                           !.result = IF stage = "deploy" THEN value ELSE cd.result,
                           !.returned = IF stage = "notify" THEN cd.result ELSE NoValue,
                           !.pc = NextStage(stage)]
            \/ cd' = [cd EXCEPT
                        !.calls = Append(cd.calls, StageCall(stage, "throw", NoValue)),
                        !.error = HookError(stage, cd.calls),
                        !.pc = "rollback"]
    /\ UNCHANGED flowVars

Preflight == TryStage("preflight")
Build == TryStage("build")
Deploy == TryStage("deploy")
Verify == TryStage("verify")
NotifySuccess == TryStage("notify")

\* the catch block: rollback, whose own error is only logged
Rollback ==
    /\ cd.pc = "rollback"
    /\ IF "rollback" \notin cd.hooks
       THEN cd' = [cd EXCEPT !.pc = "notifyFailure"]
       ELSE \E res \in {"ok", "throw"} :
               cd' = [cd EXCEPT
                        !.calls = Append(cd.calls,
                                    HookCall("rollback", NoValue, cd.error, NoValue, res, NoValue)),
                        !.pc = "notifyFailure"]
    /\ UNCHANGED flowVars

\* a mutant: an error of the failure notification replaces the original
RaisedNotifyError(original, notifyError) ==
    IF notifyError # NoHookError THEN notifyError ELSE original

\* the error thrown at the end of the catch block
Raised(original, notifyError) == original

\* the catch block: notify with ok = false, whose own error is only logged,
\* then `throw error`
NotifyFailure ==
    /\ cd.pc = "notifyFailure"
    /\ IF "notify" \notin cd.hooks
       THEN cd' = [cd EXCEPT !.pc = "thrown", !.raised = Raised(cd.error, NoHookError)]
       ELSE \E res \in {"ok", "throw"} :
               cd' = [cd EXCEPT
                        !.calls = Append(cd.calls,
                                    HookCall("notify", NoValue, cd.error, "false", res, NoValue)),
                        !.pc = "thrown",
                        !.raised = Raised(cd.error,
                                          IF res = "throw" THEN HookError("notify", cd.calls)
                                          ELSE NoHookError)]
    /\ UNCHANGED flowVars

----------------------------------------------------------------------------
(* The workflows: any number of invocations on one repository *)

\* a repository: the branch checked out, the local branches, one remote or
\* none, the branches the remote hosts and the ones that track it (main and
\* test track the remote's branch when it has one, feat may or may not)
Init ==
    /\ head \in Branches \cup {HEADREF}
    /\ remotes \in {<<>>, <<ORIGIN>>}
    /\ \E hasTest \in BOOLEAN :
          locals = ({head} \cap Branches) \cup {MAIN} \cup (IF hasTest THEN {TEST} ELSE {})
    /\ remoteHeads \in (IF remotes = <<>> THEN {{}} ELSE {H \cup {MAIN} : H \in SUBSET {FEAT, TEST}})
    /\ \E featTracked \in BOOLEAN :
          LET tracked == {b \in remoteHeads \cap locals : b = FEAT => featTracked}
          IN  upstream = [b \in Branches |-> IF b \in tracked THEN Tracking(ORIGIN, b) ELSE NoUp]
    /\ conflicted = {}
    /\ run = 0
    /\ pc = "idle"
    /\ cmd = "toSelf"
    /\ branchOpt = Undef
    /\ isRepo = TRUE
    /\ cwdOpt = Undef
    /\ baseDir = ProcessDir
    /\ target = Undef
    /\ source = head
    /\ remote = Null
    /\ cin = NoCommitInput
    /\ log = <<>>
    /\ prompts = <<>>
    /\ warnings = {}
    /\ reported = {}
    /\ err = NoErr
    /\ primary = NoErr
    /\ firstPushed = {}
    /\ cd = NoDeployment

Next ==
    \/ Invoke
    \/ ResolveRemote
    \/ CommitIfDirty
    \/ PullIfPossible
    \/ PushCurrentBranch
    \/ EnsureLocalBranchFromRemote
    \/ MergeRemoteBranchIntoCurrent
    \/ RestoreBranch
    \/ CreateMergeRequest

Spec == Init /\ [][Next]_vars

----------------------------------------------------------------------------
(* getPreferredRemote on its own: every upstream the current branch can    *)
(* have, every listing of the remotes                                      *)

RemoteNames == {ORIGIN, UPSTREAM, FORK}

FEATDASHX == <<"feat", "-", "x">>

\* the listings of at most MaxRemotes distinct remotes
RemoteListings ==
    {l \in SeqsUpTo(RemoteNames, MaxRemotes) :
        \A i, j \in 1..Len(l) : i # j => l[i] # l[j]}

\* the tracking configurations a branch can have in a repository with the
\* remotes of `names`: none, a branch of one of the remotes, a local branch
UpstreamConfigs(names) ==
    {NoUp}
    \cup {Tracking(r, b) : r \in Range(names), b \in {FEAT, FEATX, FEATDASHX}}
    \cup {LocalUp(b) : b \in {MAIN, FEATX}}

\* the state at the call of getPreferredRemote in to-self
InitRemote ==
    /\ head = FEAT
    /\ locals = {FEAT, MAIN, FEATX}
    /\ remotes \in RemoteListings
    /\ \E cfg \in UpstreamConfigs(remotes) :
          upstream = [b \in Branches |-> IF b = FEAT THEN cfg ELSE NoUp]
    /\ remoteHeads = {}
    /\ conflicted = {}
    /\ run = 1
    /\ pc = "resolve"
    /\ cmd = "toSelf"
    /\ branchOpt = Undef
    /\ isRepo = TRUE
    /\ cwdOpt = Undef
    /\ baseDir = ProcessDir
    /\ target = Undef
    /\ source = FEAT
    /\ remote = Null
    /\ cin = [NoCommitInput EXCEPT !.called = TRUE]
    /\ log = <<>>
    /\ prompts = <<>>
    /\ warnings = {}
    /\ reported = {}
    /\ err = NoErr
    /\ primary = NoErr
    /\ firstPushed = {}
    /\ cd = NoDeployment

SpecRemote == InitRemote /\ [][ResolveRemote]_vars

----------------------------------------------------------------------------
(* commitIfDirty on its own: every message, type and terminal              *)

Alphabet == {"a", "(", ")", "!", ":", SP}

MessageHeads == {<<>>, <<"a", ":">>, <<"a", "!">>, <<"a", "(", "a", ")">>, <<SP, "a">>}

\* options.commitMessage: absent, or a head followed by at most MaxTail
\* characters
AllMessages ==
    {Undef} \cup {h \o t : h \in MessageHeads, t \in SeqsUpTo(Alphabet, MaxTail)}

\* options.commitType
AllTypes == {Undef, <<>>, <<SP>>, <<"feat">>, <<SP, "fix", SP>>, <<"bogus">>}

\* the state at the call of commitIfDirty in to-self
InitCommit ==
    /\ head = FEAT
    /\ locals = {FEAT, MAIN}
    /\ remotes = <<ORIGIN>>
    /\ upstream = [b \in Branches |-> NoUp]
    /\ remoteHeads = {MAIN}
    /\ conflicted = {}
    /\ run = 1
    /\ pc = "commit"
    /\ cmd = "toSelf"
    /\ branchOpt = Undef
    /\ isRepo = TRUE
    /\ cwdOpt = Undef
    /\ baseDir = ProcessDir
    /\ target = Undef
    /\ source = FEAT
    /\ remote = Null
    /\ cin = NoCommitInput
    /\ log = <<>>
    /\ prompts = <<>>
    /\ warnings = {}
    /\ reported = {}
    /\ err = NoErr
    /\ primary = NoErr
    /\ firstPushed = {}
    /\ cd = NoDeployment

CommitPreparer == CommitStep(AllMessages, AllTypes, BOOLEAN)

SpecCommit == InitCommit /\ [][CommitPreparer]_vars

----------------------------------------------------------------------------
(* The merge/pull request on its own: branch names that need encoding      *)

RELA == <<"rel", "/", "a">>

\* options.branch of to-main
MrBranchOpts == {Undef, <<SP, "feat", SP>>, RELA}

\* the state of to-main once the source branch is pushed
InitMr ==
    /\ head \in {FEAT, FEATX, MAIN}
    /\ locals = {head, MAIN}
    /\ remotes = <<ORIGIN>>
    /\ upstream = [b \in Branches |-> IF b = head THEN Tracking(ORIGIN, b) ELSE NoUp]
    /\ remoteHeads = {head, MAIN}
    /\ conflicted = {}
    /\ run = 1
    /\ pc = "mr"
    /\ cmd = "toMain"
    /\ branchOpt \in MrBranchOpts
    /\ isRepo = TRUE
    /\ cwdOpt = Undef
    /\ baseDir = ProcessDir
    /\ target = TargetBranch("toMain", branchOpt)
    /\ source = head
    /\ PreambleError("toMain", TRUE, head, target) = NoErr
    /\ remote = ORIGIN
    /\ cin = [NoCommitInput EXCEPT !.called = TRUE]
    /\ log = <<Cmd("push", head, ORIGIN, head, "", <<>>, "ok")>>
    /\ prompts = <<>>
    /\ warnings = {}
    /\ reported = {}
    /\ err = NoErr
    /\ primary = NoErr
    /\ firstPushed = {}
    /\ cd = NoDeployment

SpecMr == InitMr /\ [][CreateMergeRequest]_vars

----------------------------------------------------------------------------
(* The commands given a working directory *)

MaxCwdRuns == 1

\* options.cwd: absent, empty, a relative path, an absolute path
CwdOpts == {Undef, <<>>, <<"other">>, <<"/", "other">>}

\* a repository with one remote, on the branch feat
InitCwd ==
    /\ Init
    /\ head = FEAT
    /\ remotes = <<ORIGIN>>

InvokeInDirectory == InvokeWith(CwdOpts, MaxCwdRuns)

NextCwd ==
    \/ InvokeInDirectory
    \/ ResolveRemote
    \/ CommitIfDirty
    \/ PullIfPossible
    \/ PushCurrentBranch
    \/ EnsureLocalBranchFromRemote
    \/ MergeRemoteBranchIntoCurrent
    \/ RestoreBranch
    \/ CreateMergeRequest

SpecCwd == InitCwd /\ [][NextCwd]_vars

----------------------------------------------------------------------------
(* runCdDeployment called with any set of hooks, each hook free to return or
   to throw *)

InitCd ==
    /\ head = FEAT
    /\ locals = {FEAT, MAIN}
    /\ remotes = <<>>
    /\ upstream = [b \in Branches |-> NoUp]
    /\ remoteHeads = {}
    /\ conflicted = {}
    /\ run = 0
    /\ pc = "idle"
    /\ cmd = "toSelf"
    /\ branchOpt = Undef
    /\ isRepo = TRUE
    /\ cwdOpt = Undef
    /\ baseDir = ProcessDir
    /\ target = Undef
    /\ source = head
    /\ remote = Null
    /\ cin = NoCommitInput
    /\ log = <<>>
    /\ prompts = <<>>
    /\ warnings = {}
    /\ reported = {}
    /\ err = NoErr
    /\ primary = NoErr
    /\ firstPushed = {}
    /\ \E hooks \in SUBSET OptionalHooks :
          cd = [NoDeployment EXCEPT !.hooks = hooks, !.pc = "preflight"]

RunCdDeployment ==
    \/ Preflight
    \/ Build
    \/ Deploy
    \/ Verify
    \/ NotifySuccess
    \/ Rollback
    \/ NotifyFailure

SpecCd == InitCd /\ [][RunCdDeployment]_vars

----------------------------------------------------------------------------
(* Properties of the workflows *)

\* the git commands of the invocation, the existence probes left out
Ops == SelectSeq(log, LAMBDA e : e.op # "ls-remote")

IsEnsureOp(e) == e.op \in {"checkout", "checkoutBranch", "checkoutLocalBranch"} /\ e.branch = target
IsRestoreOp(e) == e.op = "checkout" /\ e.branch = source
IsSyncOp(e) == e.op \in {"pull", "fetch", "merge"}

\* C1: to-main run on a repository whose current branch is the target
\* branch (main by default, or the trimmed --branch override) ends with
\* InvalidSourceBranch, and the invocation ran no git command that stages,
\* commits, pulls or pushes, asked nothing and called no provider CLI
C1_ToMainOnTargetFails ==
    (/\ run > 0
     /\ cmd = "toMain"
     /\ isRepo
     /\ source \notin {<<>>, HEADREF}
     /\ source = (IF branchOpt # Undef /\ Trim(branchOpt) # <<>>
                  THEN Trim(branchOpt) ELSE MAIN))
    => /\ pc = "done"
       /\ err = InvalidSourceBranch
       /\ log = <<>>
       /\ prompts = <<>>
       /\ remote = Null

\* to-main was refused on the branch named by an override that needed
\* trimming
C1_Witness ==
    /\ cmd = "toMain"
    /\ branchOpt = <<SP, "feat", SP>>
    /\ source = FEAT
    /\ pc = "done"
    /\ err = InvalidSourceBranch
    /\ log = <<>>

\* the place of a command in the order of to-test's different-branch path
Rank(e) ==
    CASE e.op = "add" -> 1
      [] e.op = "commit" -> 2
      [] e.op = "pull" /\ e.on = source -> 3
      [] e.op = "push" /\ e.branch = source -> 4
      [] IsEnsureOp(e) -> 5
      [] e.op = "pull" /\ e.on = target -> 6
      [] e.op = "fetch" -> 7
      [] e.op = "merge" -> 8
      [] e.op = "push" /\ e.branch = target -> 9
      [] IsRestoreOp(e) -> 10
      [] OTHER -> 0

\* C2: in to-test from a source branch other than the target the commands
\* run in the order stage and commit on the source, pull the source, push
\* the source, check out the target, pull the target, fetch and merge
\* remote/source, push the target; each starts only after the one before it
\* succeeded (a pull may be missing only when it was skipped with the
\* warning), so the target is never pushed after a failed source push,
\* target pull or merge
C2_ToTestOrder ==
    (run > 0 /\ cmd = "toTest" /\ source # target) =>
        LET ops == Ops
        IN  \A j \in 1..Len(ops) :
              LET r == Rank(ops[j])
                  p == IF j = 1 THEN 0 ELSE Rank(ops[j - 1])
              IN  /\ r \in 1..10
                  /\ p < r
                  /\ (j > 1 /\ r # 10) => ops[j - 1].res = "ok"
                  /\ r \in {1, 2, 3, 4} => ops[j].on = source
                  /\ r \in {6, 7, 8, 9} => ops[j].on = target
                  /\ r = 2 => p = 1
                  /\ r = 4 => p = 3 \/ "skip-pull" \in warnings
                  /\ r = 5 => p = 4
                  /\ r = 6 => p = 5
                  /\ r = 7 => p = 6 \/ (p = 5 /\ "skip-pull" \in warnings)
                  /\ r = 8 => p = 7
                  /\ r = 9 => p = 8
                  /\ r = 10 => p \in 5..9

\* to-test went through all of its steps and pushed the target
C2_Witness ==
    /\ cmd = "toTest"
    /\ source # target
    /\ pc = "done"
    /\ err = NoErr
    /\ Len(Ops) = 9
    /\ \E j \in 1..Len(Ops) : Rank(Ops[j]) = 9 /\ Ops[j].res = "ok"
    /\ \E j \in 1..Len(Ops) : Rank(Ops[j]) = 6 /\ Ops[j].res = "ok"

\* the first command of the invocation that failed, the restore left out
FirstFailure ==
    IF \E i \in 1..Len(Ops) : Ops[i].res = "fail" /\ ~IsRestoreOp(Ops[i])
    THEN LET i == CHOOSE k \in 1..Len(Ops) : Ops[k].res = "fail" /\ ~IsRestoreOp(Ops[k])
         IN  Ops[i].op
    ELSE "none"

SourcePushed == \E i \in 1..Len(Ops) : Rank(Ops[i]) = 4 /\ Ops[i].res = "ok"

\* C3: in to-test's different-branch path, once the source branch is pushed
\* every exit goes through the restore: at the end the source branch is
\* checked out again or the failed restore was warned about, and the
\* outcome is the one of the steps before it: no error when they all
\* succeeded, and the error of the step that failed otherwise
C3_RestoreBestEffort ==
    (/\ run > 0 /\ cmd = "toTest" /\ source # target
     /\ pc = "done" /\ SourcePushed)
    => /\ head = source \/ "restore-failed" \in warnings
       /\ head # source => \/ Ops[Len(Ops)] = Cmd("checkout", head, <<>>, source, "", <<>>, "fail")
                           \/ ~IsRestoreOp(Ops[Len(Ops)])
       /\ err = primary
       /\ FirstFailure = "none" => err = NoErr
       /\ FirstFailure \in {"pull", "fetch", "merge"} => err.kind \in {"MergeConflict", "SyncFailed"}
       /\ FirstFailure \in {"push", "checkout", "checkoutBranch", "checkoutLocalBranch"}
             => err = GitError

\* a merge conflict, after which the checkout of the source branch failed
C3_Witness ==
    /\ cmd = "toTest"
    /\ source # target
    /\ pc = "done"
    /\ SourcePushed
    /\ FirstFailure = "merge"
    /\ Ops[Len(Ops)] = Cmd("checkout", target, <<>>, source, "", <<>>, "fail")
    /\ "restore-failed" \in warnings
    /\ head = target
    /\ err = MergeConflict("to-test")

\* the error thrown by the step that ended the sequence of steps
Thrown == IF pc = "restore" THEN primary ELSE err

\* C4: when a pull, or the fetch or merge of mergeRemoteBranchIntoCurrent,
\* fails, the error is MergeConflict with the rerun hint of the command if
\* the status lists conflicted paths, every one of which was written out,
\* and SyncFailed if it lists none; the only command that may follow in the
\* invocation is the checkout back to the source branch
C4_ConflictHandling ==
    run > 0 =>
        \A i \in 1..Len(log) :
            (IsSyncOp(log[i]) /\ log[i].res = "fail") =>
                /\ Thrown = IF conflicted # {}
                            THEN MergeConflict(CASE cmd = "toSelf" -> "to-self"
                                                 [] cmd = "toTest" -> "to-test"
                                                 [] cmd = "toMain" -> "to-main")
                            ELSE SyncFailed
                /\ reported = conflicted
                /\ pc \in {"restore", "done"}
                /\ \A j \in (i + 1)..Len(log) : IsRestoreOp(log[j]) /\ cmd = "toTest"

\* a merge in to-test left two conflicted paths
C4_Witness ==
    /\ cmd = "toTest"
    /\ pc = "done"
    /\ \E i \in 1..Len(log) : log[i].op = "merge" /\ log[i].res = "fail"
    /\ conflicted = Paths
    /\ reported = Paths
    /\ err = MergeConflict("to-test")

----------------------------------------------------------------------------
(* Properties of commitIfDirty *)

CommitMessages == {log[i].msg : i \in {k \in 1..Len(log) : log[k].op = "commit"}}

\* the tree was dirty, `git add -A` succeeded and left a staged diff
Staged ==
    /\ cin.called
    /\ cin.tree = "dirty"
    /\ \E i \in 1..Len(log) : log[i].op = "add" /\ log[i].res = "ok"

\* options.commitMessage is absent or blank
NoMessage == cin.message = Undef \/ Trim(cin.message) = <<>>

\* options.commitType is absent or empty
NoType == cin.type \in {Undef, <<>>}

UnrecognizedType == ~NoType /\ Trim(cin.type) \notin CommitTypes

\* a message was supplied and its trimmed text has no conventional prefix
Unprefixed == ~NoMessage /\ ~MatchesPrefixPattern(Trim(cin.message))

\* C5, as amended: without a terminal and with a dirty tree whose staging
\* succeeded and left a staged diff, a commit type outside the enumerated
\* set fails with UnknownCommitType; otherwise no message, or an unprefixed
\* message without a type, fails with MissingCommitMetadata; no commit is
\* created in any of these cases
C5_MissingMetadata ==
    (Staged /\ ~cin.tty) =>
        /\ UnrecognizedType => err = UnknownCommitType /\ CommitMessages = {}
        /\ (~UnrecognizedType /\ (NoMessage \/ (Unprefixed /\ NoType)))
              => err = MissingCommitMetadata /\ CommitMessages = {}

\* an unprefixed message without a type was rejected after the staging
C5_Witness ==
    /\ Staged
    /\ ~cin.tty
    /\ cin.message = <<"a", "!">>
    /\ cin.type = Undef
    /\ err = MissingCommitMetadata
    /\ Len(log) = 1

\* C5 as stated: without a terminal and with a dirty tree, no message, or
\* an unprefixed message without a type, fails with MissingCommitMetadata
\* and no commit is created
C5_AsStated ==
    (Staged /\ ~cin.tty /\ (NoMessage \/ (Unprefixed /\ NoType)))
    => err = MissingCommitMetadata /\ CommitMessages = {}

\* C6, as amended: for every supplied message whose trimmed text matches
\* the conventional-prefix pattern, whatever type is supplied with it, the
\* message is never rejected for missing metadata, nothing is asked, and
\* the message of any commit made is the trimmed supplied message
C6_PrefixedUnchanged ==
    (cin.called /\ cin.message # Undef /\ MatchesPrefixPattern(Trim(cin.message)))
    => /\ CommitMessages \subseteq {Trim(cin.message)}
       /\ err # MissingCommitMetadata
       /\ prompts = <<>>
       /\ (Staged /\ ~UnrecognizedType) => CommitMessages # {}

\* a prefixed message with spaces around it was committed trimmed, with a
\* type supplied as well
C6_Witness ==
    /\ Staged
    /\ cin.message = <<"a", ":", SP, "a", SP>>
    /\ cin.type = <<"feat">>
    /\ CommitMessages = {<<"a", ":", SP, "a">>}
    /\ err = NoErr

\* C6 as stated: a supplied message that matches the pattern is committed
\* unchanged, whatever type is supplied
C6_AsStated ==
    (cin.called /\ cin.message # Undef /\ MatchesPrefixPattern(cin.message))
    => CommitMessages \subseteq {cin.message}

\* the scope is empty or free of whitespace and parentheses
ScopeWellFormed(scope) == scope = <<>> \/ (~HasSpace(scope) /\ ~HasParen(scope))

\* C7: for a type of the enumerated set, an unprefixed subject and a scope
\* free of whitespace and parentheses the committed message is exactly
\* type(scope): subject, and with an empty scope exactly type: subject
C7_ComposedMessage ==
    (/\ cin.called
     /\ cin.ctype # Undef /\ cin.ctype \in CommitTypes
     /\ cin.subject # Undef /\ ~MatchesPrefixPattern(cin.subject)
     /\ ScopeWellFormed(cin.scope))
    => CommitMessages =
          {IF cin.scope = <<>>
           THEN cin.ctype \o <<":", SP>> \o cin.subject
           ELSE cin.ctype \o <<"(">> \o cin.scope \o <<")", ":", SP>> \o cin.subject}

\* feat(api): a was committed from the answers to the three prompts
C7_Witness ==
    /\ cin.ctype = <<"feat">>
    /\ cin.scope = <<"api">>
    /\ cin.subject = <<"a">>
    /\ prompts = <<"subject", "type", "scopeInput">>
    /\ CommitMessages = {<<"feat", "(", "api", ")", ":", SP, "a">>}
    /\ err = NoErr

----------------------------------------------------------------------------
(* Properties of the remote selection, the pull and the push *)

\* C8 as stated: getPreferredRemote returns the remote of the current
\* branch's upstream if the branch tracks one, else origin if there is a
\* remote of that name, else the first remote listed, and fails with
\* NoRemoteConfigured exactly when the repository has no remote; with
\* upstream origin/feat-x and the remotes origin and upstream it returns
\* origin in both listing orders
C8_AsStated ==
    (run > 0 /\ cmd = "toSelf" /\ pc \notin {"commit", "resolve"}) =>
        LET cfg == upstream[source]
        IN  /\ (err = NoRemoteConfigured) <=> (remotes = <<>>)
            /\ remotes # <<>> =>
                  remote = IF cfg.kind = "remote" THEN cfg.remote
                           ELSE IF \E i \in 1..Len(remotes) : remotes[i] = ORIGIN THEN ORIGIN
                           ELSE remotes[1]
            /\ (/\ cfg = Tracking(ORIGIN, FEATDASHX)
                /\ remotes \in {<<ORIGIN, UPSTREAM>>, <<UPSTREAM, ORIGIN>>})
               => remote = ORIGIN

\* the steps of a pull or push helper
PullStep == pc \in {"pull", "pullTarget"}
PushStep == pc \in {"push", "pushTarget"}

\* the commands a step adds to the log
Added == SubSeq(log', Len(log) + 1, Len(log'))

\* C9: pullIfPossible runs a pull if and only if the branch checked out has
\* an upstream or the probe of the remote's heads, made for the resolved
\* remote and the same branch name, finds the branch; a probe that fails
\* raises no error: the pull is skipped with a warning and the workflow goes
\* on with its next step (the push, which in to-test's target branch comes
\* after the merge)
C9_PullPolicy ==
    [][PullStep =>
        LET new == Added
            pulled == \E i \in 1..Len(new) : new[i].op = "pull"
            probed(res) == \E i \in 1..Len(new) : new[i].op = "ls-remote" /\ new[i].res = res
            skipped == /\ ~pulled
                       /\ "skip-pull" \in warnings'
                       /\ err' = err /\ primary' = primary
                       /\ pc' = (IF pc = "pull" THEN "push" ELSE "merge")
        IN  /\ pulled <=> (upstream[head].kind # "none" \/ probed("found"))
            /\ \A i \in 1..Len(new) :
                  new[i].op = "ls-remote" =>
                      /\ new[i].remote = remote
                      /\ new[i].branch = head
                      /\ upstream[head].kind = "none"
            /\ probed("error") => skipped
            /\ ~pulled => skipped
    ]_vars

\* the probe failed, the pull was skipped with the warning and the
\* workflow is at the push
C9_Witness ==
    /\ pc = "push"
    /\ Len(log) > 0
    /\ log[Len(log)].op = "ls-remote"
    /\ log[Len(log)].res = "error"
    /\ "skip-pull" \in warnings
    /\ err = NoErr

\* C10: pushCurrentBranch passes -u exactly when the branch checked out
\* has no upstream at the time of the push and no option otherwise; it
\* pushes to the resolved remote under the name of the branch checked out;
\* a successful push with -u leaves the branch tracking that remote branch,
\* so a branch pushed with -u before is pushed without it
C10_PushPolicy ==
    [][PushStep =>
        LET new == Added
        IN  /\ Len(new) = 1
            /\ new[1].op = "push"
            /\ new[1].flag = (IF upstream[head].kind = "none" THEN "-u" ELSE "")
            /\ new[1].remote = remote
            /\ new[1].branch = head
            /\ (new[1].res = "ok" /\ new[1].flag = "-u")
                  => upstream'[head] = Tracking(remote, head)
            /\ head \in firstPushed => new[1].flag = ""
    ]_vars

\* the second run pushed, without -u, the branch the first run published
C10_Witness ==
    /\ run = 2
    /\ Len(log) > 0
    /\ log[Len(log)].op = "push"
    /\ log[Len(log)].flag = ""
    /\ log[Len(log)].res = "ok"
    /\ log[Len(log)].branch \in firstPushed
    /\ log[Len(log)].branch = source

----------------------------------------------------------------------------
(* Properties of the merge/pull request *)

\* the `which` calls of the invocation, and the provider CLI runs
Whiches == SelectSeq(log, LAMBDA e : e.op = "which")
CliRuns == SelectSeq(log, LAMBDA e : e.op \in {"glab", "gh"})

\* the URL of the remote was read: its entry carries what parseRemoteUrl
\* made of it
UrlRead == \E i \in 1..Len(log) : log[i].op = "get-url" /\ log[i].res = "ok"
Provider == log[CHOOSE i \in 1..Len(log) : log[i].op = "get-url"].flag

\* C11: createMergeRequest looks for glab first and gh second when the
\* provider is gitlab, unknown or the remote was not parsed, and for gh
\* first and glab second when the provider is github; a CLI that is not on
\* the path is skipped and the other one is looked for, and the CLI that is
\* run is the first one found
C11_CliOrder ==
    (run > 0 /\ UrlRead) =>
        LET w == Whiches
            first == IF Provider = "github" THEN "gh" ELSE "glab"
            other == IF Provider = "github" THEN "glab" ELSE "gh"
        IN  /\ cmd = "toMain"
            /\ Len(w) \in {1, 2}
            /\ w[1].flag = first
            /\ Len(w) = 2 <=> w[1].res = "absent"
            /\ Len(w) = 2 => w[2].flag = other
            /\ Len(CliRuns) <= 1
            /\ Len(CliRuns) = 1 <=> w[Len(w)].res = "found"
            /\ Len(CliRuns) = 1 =>
                  /\ CliRuns[1].op = w[Len(w)].flag
                  /\ log[Len(log)] = CliRuns[1]
                  /\ log[Len(log) - 1] = w[Len(w)]

\* the remote was not parsed, glab was not on the path and gh created the
\* pull request
C11_Witness ==
    /\ UrlRead
    /\ Provider = "null"
    /\ Len(Whiches) = 2
    /\ Whiches[1].flag = "glab" /\ Whiches[1].res = "absent"
    /\ Whiches[2].flag = "gh" /\ Whiches[2].res = "found"
    /\ log[Len(log)].op = "gh" /\ log[Len(log)].res = "ok"
    /\ err = NoErr /\ pc = "done"

\* sub occurs in s as a contiguous run
Contains(s, sub) ==
    \E k \in 0..(Len(s) - Len(sub)) : SubSeq(s, k + 1, k + Len(sub)) = sub

\* the web page on which the request source -> target is opened by hand
ExpectedUrl ==
    IF Provider = "github"
    THEN BaseUrl \o <<"/compare/">> \o EncodeURIComponent(target) \o <<"...">>
                 \o EncodeURIComponent(source) \o <<"?expand=1">>
    ELSE BaseUrl \o <<"/-/merge_requests/new?merge_request[source_branch]=">>
                 \o EncodeURIComponent(source)
                 \o <<"&merge_request[target_branch]=">> \o EncodeURIComponent(target)

\* C12, as amended: with a remote parsed as github or gitlab, when no
\* provider CLI is on the path createMergeRequest fails with the error
\* whose message holds the manual link for source -> target; when a CLI
\* that is on the path exits non-zero it fails with that CLI's failure
\* message, which holds no manual link
C12_ManualLinkWhenNoCli ==
    (pc = "done" /\ UrlRead /\ Provider \in {"github", "gitlab"}) =>
        /\ CliRuns = <<>> =>
              /\ err.kind = "NoMergeRequestToolAvailable"
              /\ err.detail = <<"manual link: ">> \o ExpectedUrl
        /\ (CliRuns # <<>> /\ CliRuns[1].res = "fail") =>
              /\ err.kind = "MergeRequestFailed"
              /\ err.detail = <<CliRuns[1].op>>
              /\ ~Contains(err.detail, ExpectedUrl)
        /\ (CliRuns # <<>> /\ CliRuns[1].res = "ok") => err = NoErr

\* no CLI on the path, a GitHub remote: the link compares rel/a with
\* feat/x, both percent-encoded
C12_Witness ==
    /\ pc = "done"
    /\ UrlRead
    /\ Provider = "github"
    /\ source = FEATX
    /\ target = RELA
    /\ CliRuns = <<>>
    /\ err.kind = "NoMergeRequestToolAvailable"
    /\ err.detail = <<"manual link: ", "https://host/owner/repo", "/compare/",
                      "rel", "%2F", "a", "...", "feat", "%2F", "x", "?expand=1">>

\* C12 as stated: whenever no provider CLI creates the request (none on the
\* path, or one that exits non-zero) and the remote was parsed as github or
\* gitlab, the error message holds the manual link
C12_AsStated ==
    (/\ pc = "done" /\ UrlRead /\ Provider \in {"github", "gitlab"}
     /\ (CliRuns = <<>> \/ CliRuns[1].res = "fail"))
    => /\ err # NoErr
       /\ Contains(err.detail, ExpectedUrl)

\* C13: when neither CLI is on the path, the failure message of
\* createMergeRequest holds a manual link only if the remote URL was parsed,
\* and holds no `manual link` line when it was not parsed or when the
\* parsed provider is unknown
C13_LinkOnlyWhenParsed ==
    (pc = "done" /\ UrlRead /\ \A i \in 1..Len(Whiches) : Whiches[i].res = "absent") =>
        LET linked == Contains(err.detail, <<"manual link: ">>)
        IN  /\ Len(Whiches) = 2
            /\ err.kind = "NoMergeRequestToolAvailable"
            /\ linked => Provider # "null"
            /\ Provider \in {"null", "unknown"} => ~linked /\ err.detail = <<>>
            /\ linked <=> Provider \in {"github", "gitlab"}
            /\ Provider = "null" <=> "unparsed-remote" \in warnings

\* the remote was parsed, its provider is unknown, no CLI is on the path
\* and the message has no link
C13_Witness ==
    /\ pc = "done"
    /\ UrlRead
    /\ Provider = "unknown"
    /\ Len(Whiches) = 2
    /\ CliRuns = <<>>
    /\ err = NoMergeRequestToolAvailable(<<>>)
    /\ "unparsed-remote" \notin warnings

----------------------------------------------------------------------------
(* Properties of runCdDeployment *)

\* the rank of a hook in the pipeline
StageRank(hook) ==
    CASE hook = "preflight" -> 1
      [] hook = "build" -> 2
      [] hook = "deploy" -> 3
      [] hook = "verify" -> 4
      [] hook = "notify" -> 5
      [] OTHER -> 6

IsPipelineCall(c) == c.error = NoHookError

\* the calls of the pipeline: those made before any error was caught
PipelineCalls == SelectSeq(cd.calls, IsPipelineCall)

\* the hooks the pipeline runs: deploy and the optional ones that were given
Provided == (cd.hooks \ {"rollback"}) \cup {"deploy"}

CallsOf(calls, hook) == {i \in 1..Len(calls) : calls[i].hook = hook}

\* C14: the pipeline calls the provided hooks in the order preflight, build,
\* deploy, verify, notify, each one only after every provided hook before it
\* has been called and has returned; deploy is given the artifact build
\* returned, or the artifact of kind none when there is no build hook; a call
\* that returns returns what deploy returned.
C14_PipelineOrder ==
    LET calls == PipelineCalls
    IN  /\ \A i \in 1..Len(calls) :
              /\ calls[i].hook \in Provided
              /\ {h \in Provided : StageRank(h) < StageRank(calls[i].hook)}
                    = {calls[j].hook : j \in 1..(i - 1)}
              /\ \A j \in 1..(i - 1) :
                    /\ calls[j].res = "ok"
                    /\ StageRank(calls[j].hook) < StageRank(calls[j + 1].hook)
              /\ calls[i].hook = "deploy" =>
                    calls[i].arg = (IF "build" \in cd.hooks
                                    THEN calls[i - 1].ret ELSE "none")
        /\ cd.pc = "returned" =>
              /\ {calls[i].hook : i \in 1..Len(calls)} = Provided
              /\ cd.calls = calls
              /\ \E i \in CallsOf(calls, "deploy") : cd.returned = calls[i].ret

\* every hook was given, build returned a file and the call returned
C14_Witness ==
    /\ cd.pc = "returned"
    /\ cd.hooks = OptionalHooks
    /\ Len(cd.calls) = 5
    /\ cd.calls[2].ret = "file"
    /\ cd.calls[3].arg = "file"
    /\ cd.returned = "result-b"

\* the calls of the catch block: those given the caught error
RecoveryCalls == SelectSeq(cd.calls, LAMBDA c : ~IsPipelineCall(c))

\* the error of the stage that threw, if one did
OriginalError ==
    LET n == Len(PipelineCalls)
    IN  IF n > 0 /\ PipelineCalls[n].res = "throw"
        THEN [by |-> PipelineCalls[n].hook, at |-> n]
        ELSE NoHookError

\* the calls the catch block makes once it is through
ExpectedRecovery ==
    (IF "rollback" \in cd.hooks THEN <<"rollback">> ELSE <<>>)
        \o (IF "notify" \in cd.hooks THEN <<"notify">> ELSE <<>>)

\* C15: once a stage has thrown, rollback is called if it was given, then
\* notify if it was given, with ok = false, both with the error of the stage;
\* the call then throws that same error, whether or not rollback or that
\* notify threw.  A call throws only after a stage threw.
C15_FailureHandling ==
    LET rec == RecoveryCalls
    IN  /\ cd.calls = PipelineCalls \o rec
        /\ \A i \in 1..Len(rec) :
              /\ OriginalError # NoHookError
              /\ rec[i].error = OriginalError
              /\ rec[i].hook = ExpectedRecovery[i]
              /\ rec[i].hook = "notify" => rec[i].ok = "false"
        /\ OriginalError # NoHookError =>
              cd.pc \in {"rollback", "notifyFailure", "thrown"}
        /\ cd.pc = "rollback" => rec = <<>>
        /\ cd.pc = "notifyFailure" =>
              [i \in 1..Len(rec) |-> rec[i].hook]
                 = (IF "rollback" \in cd.hooks THEN <<"rollback">> ELSE <<>>)
        /\ cd.pc = "thrown" =>
              /\ [i \in 1..Len(rec) |-> rec[i].hook] = ExpectedRecovery
              /\ OriginalError # NoHookError
              /\ cd.raised = OriginalError
        /\ cd.pc # "thrown" => cd.raised = NoHookError

\* verify threw, then rollback threw, then notify threw, and the call threw
C15_Witness ==
    /\ cd.pc = "thrown"
    /\ Len(RecoveryCalls) = 2
    /\ RecoveryCalls[1].res = "throw"
    /\ RecoveryCalls[2].res = "throw"
    /\ OriginalError.by = "verify"
    /\ cd.raised.by = "verify"

----------------------------------------------------------------------------
(* Properties of the three commands taken together *)

\* no command was given to git and commitIfDirty was not entered
NothingDone == log = <<>> /\ ~cin.called /\ prompts = <<>>

\* C16: each of to-self, to-test and to-main fails with NotAGitRepository
\* outside a repository and with DetachedHead on a detached HEAD, and has
\* then staged, committed, pulled, checked out, merged and pushed nothing.
C16_PreambleFailures ==
    run > 0 =>
       /\ ~isRepo =>
             pc = "done" /\ err = NotAGitRepository /\ NothingDone
       /\ isRepo /\ source = HEADREF =>
             pc = "done" /\ err = DetachedHead /\ NothingDone

\* to-test invoked on a detached HEAD
C16_Witness ==
    /\ run > 0
    /\ cmd = "toTest"
    /\ isRepo
    /\ source = HEADREF
    /\ err = DetachedHead
    /\ pc = "done"

\* the invocation got past the checks of the repository and of HEAD
PreambleOk == run > 0 /\ isRepo /\ source # HEADREF

\* to-self, or to-test started on its target branch
SelfLike == cmd = "toSelf" \/ (cmd = "toTest" /\ source = target)

\* the place of a command in the order commit-if-dirty, pull, push
SyncRank(e) ==
    CASE e.op = "add" -> 1
      [] e.op = "commit" -> 2
      [] e.op = "pull" -> 3
      [] e.op = "push" -> 4
      [] OTHER -> 0

\* the invocation has run nothing but the staging, the commit, the probe,
\* the pull and the push of branch b on the resolved remote, in that order,
\* each after the one before it succeeded
SyncAndPushOnly(b) ==
    /\ \A i \in 1..Len(log) :
          /\ log[i].on = b
          /\ log[i].op \in {"add", "commit", "ls-remote", "pull", "push"}
          /\ log[i].op \in {"ls-remote", "push"} =>
                log[i].remote = remote /\ log[i].branch = b
          /\ log[i].op = "pull" =>
                \/ log[i].remote = <<>> /\ log[i].branch = <<>>
                \/ log[i].remote = remote /\ log[i].branch = b
    /\ \A j \in 2..Len(Ops) :
          /\ SyncRank(Ops[j - 1]) < SyncRank(Ops[j])
          /\ Ops[j - 1].res = "ok"

\* C17 (as the code has it): to-test started on its target branch runs, as
\* to-self does, only the staging, commit, probe, pull and push of the
\* current branch on the resolved remote, in that order, and never a
\* checkout, fetch or merge.  The two differ in two places: to-test resolves
\* the remote before commit-if-dirty while to-self resolves it after, so
\* without a remote to-test fails before commit-if-dirty is entered and
\* to-self after it; and a conflicted pull names the command itself in its
\* rerun hint.
C17_ToTestOnTarget ==
    (PreambleOk /\ SelfLike) =>
        /\ head = source
        /\ SyncAndPushOnly(source)
        /\ err.kind = "MergeConflict" => err.detail = <<RerunName(cmd)>>
        /\ cmd = "toSelf" => (pc # "commit" => cin.called)
        /\ cmd = "toTest" => (cin.called => remote # Null)
        /\ (pc = "done" /\ remote # Null /\ err # NoRemoteConfigured) => cin.called

\* to-test on its target, with no remote to resolve, ended before
\* commit-if-dirty
C17_Witness ==
    /\ PreambleOk
    /\ cmd = "toTest"
    /\ source = target
    /\ pc = "done"
    /\ err = NoRemoteConfigured
    /\ ~cin.called
    /\ log = <<>>

\* C17 as stated: to-test on its target does what to-self does, so like
\* to-self it has been through commit-if-dirty whenever it ends
C17_AsStated ==
    (PreambleOk /\ SelfLike /\ pc = "done") => cin.called

\* the directory the commands of the invocation were asked to run in
RequestedDir == IF Truthy(cwdOpt) THEN ResolvePath(cwdOpt) ELSE ProcessDir

\* C18 as stated: every command of an invocation given a working directory
\* runs in that directory, for each of to-self, to-test and to-main, and the
\* target branch is the trimmed branch option when that is not blank and
\* test (to-test) or main (to-main) otherwise.
C18_AsStated ==
    run > 0 =>
       /\ \A i \in 1..Len(log) : log[i].dir = RequestedDir
       /\ cmd # "toSelf" =>
             target = (IF branchOpt # Undef /\ Trim(branchOpt) # <<>>
                       THEN Trim(branchOpt) ELSE DefaultTarget(cmd))

\* the commands whose failure is an error of the helper that ran them
IsGitStep(e) ==
    e.op \in {"add", "commit", "pull", "fetch", "merge", "push", "checkout",
              "checkoutBranch", "checkoutLocalBranch"}

\* C19: nothing is run again and a failure ends the invocation: the command
\* that follows a failed add, commit, pull, fetch, merge, push or checkout
\* can only be the checkout back to the source branch in to-test, which is
\* then the last command of the invocation; without one the invocation is
\* over, or about to restore, with the error of the failed command.  A probe
\* that fails is no failure in this sense.
C19_NoRetry ==
    run > 0 =>
       /\ \A j \in 2..Len(log) :
             (IsGitStep(log[j - 1]) /\ log[j - 1].res = "fail") =>
                /\ IsRestoreOp(log[j])
                /\ j = Len(log)
                /\ cmd = "toTest" /\ source # target
       /\ (/\ log # <<>>
           /\ IsGitStep(log[Len(log)])
           /\ log[Len(log)].res = "fail") =>
             \/ pc = "restore" /\ primary # NoErr
             \/ (/\ pc = "done"
                 /\ IsRestoreOp(log[Len(log)]) \/ err # NoErr)

\* the merge into the target failed and the only command after it is the
\* checkout of the source branch
C19_Witness ==
    /\ cmd = "toTest"
    /\ pc = "done"
    /\ Len(log) > 2
    /\ log[Len(log) - 1].op = "merge"
    /\ log[Len(log) - 1].res = "fail"
    /\ IsRestoreOp(log[Len(log)])
    /\ err # NoErr

\* the commands of to-main after the push: reading the remote's URL,
\* looking for a provider CLI and running one
IsMrStep(e) == e.op \in {"get-url", "which", "glab", "gh"}

\* the place of a command in the order of to-main
MainRank(e) == IF IsMrStep(e) THEN 5 ELSE SyncRank(e)

\* C20: to-main reads the remote's URL, looks for a provider CLI and runs
\* one only after commit-if-dirty returned, the remote was resolved, the
\* pull of the source branch succeeded or was skipped, and the push of the
\* source branch to that remote succeeded, in that order; once that push has
\* failed no CLI is looked for or run and no request is created.
C20_MrAfterPush ==
    (run > 0 /\ cmd = "toMain") =>
       /\ \A j \in 1..Len(Ops) :
             /\ MainRank(Ops[j]) \in 1..5
             /\ IsMrStep(Ops[j]) =>
                   /\ j > 1
                   /\ cin.called
                   /\ remote # Null
                   /\ \/ IsMrStep(Ops[j - 1])
                      \/ /\ Ops[j - 1].op = "push"
                         /\ Ops[j - 1].res = "ok"
                         /\ Ops[j - 1].branch = source
                         /\ Ops[j - 1].remote = remote
                         /\ \/ "skip-pull" \in warnings
                            \/ j > 2 /\ Ops[j - 2].op = "pull"
             /\ (j > 1 /\ ~IsMrStep(Ops[j - 1])) =>
                   /\ MainRank(Ops[j - 1]) < MainRank(Ops[j])
                   /\ Ops[j - 1].res = "ok"
       /\ remote # Null => cin.called
       /\ pc = "mr" => (Ops # <<>> /\ Ops[Len(Ops)].op = "push")
       /\ (\E j \in 1..Len(Ops) : Ops[j].op = "push" /\ Ops[j].res = "fail") =>
             /\ \A j \in 1..Len(log) : ~IsMrStep(log[j])
             /\ pc = "done"
             /\ err = GitError

\* to-main committed, pulled and pushed the source branch, and the provider
\* CLI then created the request
C20_Witness ==
    /\ cmd = "toMain"
    /\ pc = "done"
    /\ err = NoErr
    /\ Len(Ops) > 5
    /\ Ops[1].op = "add"
    /\ Ops[2].op = "commit"
    /\ Ops[3].op = "pull"
    /\ Ops[4].op = "push"
    /\ Ops[5].op = "get-url"
    /\ Ops[Len(Ops)].op \in {"glab", "gh"}
    /\ Ops[Len(Ops)].res = "ok"

----------------------------------------------------------------------------
(* Further properties of commitIfDirty *)

\* C21 (as the code has it): a supplied commit type outside the enumerated
\* set never leads to a commit; commitIfDirty fails with UnknownCommitType,
\* having asked nothing, when the tree is dirty and the staging succeeded
\* and left a staged diff.  With a clean tree, or with nothing staged, it
\* returns without an error, the type not looked at.
C21_UnknownCommitType ==
    (cin.called /\ UnrecognizedType) =>
        /\ CommitMessages = {}
        /\ Staged => err = UnknownCommitType /\ prompts = <<>>
        /\ (cin.tree # "dirty" /\ err # GitError) => err = NoErr
        /\ err = UnknownCommitType => Staged

\* a type of blanks only was rejected after the staging
C21_Witness ==
    /\ Staged
    /\ cin.type = <<SP>>
    /\ cin.message = <<"a", ":", SP, "a">>
    /\ err = UnknownCommitType
    /\ Len(log) = 1

\* C21 as stated: whenever a type outside the enumerated set is supplied,
\* commitIfDirty fails with UnknownCommitType and creates no commit
C21_AsStated ==
    (cin.called /\ UnrecognizedType) =>
        err = UnknownCommitType /\ CommitMessages = {}

----------------------------------------------------------------------------
(* Properties of ensureLocalBranchFromRemote *)

EnsureStep == pc = "ensure"

\* C22: ensureLocalBranchFromRemote runs exactly one checkout of the target:
\* the plain checkout when the target is a local branch, else the creation
\* of a branch tracking remote/target when the probe finds the target on the
\* remote, else the creation of a branch from the current HEAD together with
\* the warning (a probe that fails counts as not found).  The probe is made
\* only when there is no local branch.  A checkout that succeeds leaves the
\* target checked out.
C22_EnsurePriority ==
    [][EnsureStep =>
        LET new == Added
            n == Len(new)
            probes == {i \in 1..n : new[i].op = "ls-remote"}
            found == \E i \in probes : new[i].res = "found"
            hasLocal == target \in locals
        IN  /\ n > 0
            /\ IsEnsureOp(new[n])
            /\ \A i \in 1..(n - 1) : i \in probes
            /\ probes = (IF hasLocal THEN {} ELSE {1})
            /\ \A i \in probes : new[i].remote = remote /\ new[i].branch = target
            /\ hasLocal => new[n].op = "checkout"
            /\ (~hasLocal /\ found) =>
                  new[n].op = "checkoutBranch" /\ new[n].remote = remote
            /\ (~hasLocal /\ ~found) => new[n].op = "checkoutLocalBranch"
            /\ new[n].op = "checkoutLocalBranch" <=> "new-target" \in warnings'
            /\ new[n].res = "ok" =>
                  /\ head' = target
                  /\ target \in locals'
                  /\ pc' = "pullTarget"
                  /\ new[n].op = "checkoutBranch" =>
                        upstream'[target] = Tracking(remote, target)
            /\ new[n].res = "fail" => head' = head /\ pc' = "restore"
    ]_vars

\* the target was no local branch, the probe found it on the remote and the
\* tracking branch was created and checked out
C22_Witness ==
    /\ pc = "pullTarget"
    /\ head = target
    /\ Len(log) > 1
    /\ log[Len(log)].op = "checkoutBranch"
    /\ log[Len(log)].res = "ok"
    /\ log[Len(log) - 1].op = "ls-remote"
    /\ log[Len(log) - 1].res = "found"
    /\ upstream[target] = Tracking(remote, target)

\* the tree was clean, or `git add -A` ran and left no staged diff
NothingToCommit ==
    /\ cin.called
    /\ \/ cin.tree = "clean"
       \/ /\ cin.tree = "unstaged"
          /\ \E i \in 1..Len(log) : log[i].op = "add" /\ log[i].res = "ok"

\* C23: with a clean tree, and with a tree whose staging left no staged
\* diff, commitIfDirty returns without an error, whatever message, type and
\* terminal it is given: no commit is made, nothing is asked, a clean tree is
\* not even staged, and the command goes on with its next statement, on the
\* way to the pull and the push.
C23_NothingToCommit ==
    NothingToCommit =>
        /\ CommitMessages = {}
        /\ prompts = <<>>
        /\ err = NoErr
        /\ pc = NextStep(cmd, Same, "commit")
        /\ cin.tree = "clean" => log = <<>>
        /\ cin.tree = "unstaged" => Len(log) = 1
        /\ cin.final = Undef

\* on a terminal and without a message, the staging left nothing staged:
\* nothing was asked and to-self is at its next statement
C23_Witness ==
    /\ NothingToCommit
    /\ cin.tree = "unstaged"
    /\ cin.tty
    /\ cin.message = Undef
    /\ cin.type = <<"bogus">>
    /\ pc = "resolve"
    /\ err = NoErr

\* the place of a prompt in the order subject, type, scope (the list of
\* configured scopes before the free-text scope)
PromptRank(p) ==
    CASE p = "subject" -> 1
      [] p = "type" -> 2
      [] p = "scopeList" -> 3
      [] p = "scopeInput" -> 4
      [] OTHER -> 0

WasAsked(p) == \E i \in 1..Len(prompts) : prompts[i] = p

ScopeAsked == WasAsked("scopeList") \/ WasAsked("scopeInput")

\* commitIfDirty got as far as its prompts on a terminal
AtPrompts == Staged /\ cin.tty /\ ~UnrecognizedType

AcceptedTypes == {ty \in AllTypes : TypeError(ty) = NoErr}

\* commitIfDirty given msg as its message, with any accepted type and with
\* or without a terminal, asks nothing and commits msg itself
CommitsAsGiven(msg) ==
    \A ty \in AcceptedTypes, tty \in BOOLEAN :
       \A o \in PrepareAndCommit(msg, ty, tty) :
          /\ o.asked = <<>>
          /\ o.err \in {NoErr, GitError}
          /\ Len(o.ops) = 1
          /\ o.ops[1].op = "commit"
          /\ o.ops[1].msg = msg

\* C25: the message of every commit commitIfDirty makes matches the
\* conventional-prefix pattern, with and without a terminal: a message
\* without a prefix is never committed as it is, and the composed messages
\* type: subject and type(scope): subject are recognised by
\* hasConventionalPrefix, so that a committed message supplied again is
\* committed unchanged.
C25_CommittedPrefixed ==
    \A msg \in CommitMessages :
        /\ MatchesPrefixPattern(msg)
        /\ HasConventionalPrefix(msg)
        /\ cin.ctype = Undef => HasConventionalPrefix(cin.subject)
        /\ CommitsAsGiven(msg)

\* a message composed of a chosen type, a typed scope and a typed subject
\* was committed
C25_Witness ==
    /\ cin.tty
    /\ cin.message = Undef
    /\ cin.type = Undef
    /\ CommitMessages = {<<"feat", "(", "api", ")", ":", SP, "a">>}
    /\ err = NoErr

\* commitIfDirty threw one of its own two errors
Rejected == err \in {UnknownCommitType, MissingCommitMetadata}

\* C28 (as the code has it): when commitIfDirty fails with
\* UnknownCommitType or MissingCommitMetadata, `git add -A` has run and
\* succeeded before the check: every change of the dirty tree is staged, and
\* nothing else was run, asked or committed.
C28_RejectedAfterStaging ==
    (cin.called /\ Rejected) =>
        /\ Staged
        /\ Len(log) = 1
        /\ log[1].op = "add"
        /\ log[1].res = "ok"
        /\ prompts = <<>>
        /\ CommitMessages = {}
        /\ err = MissingCommitMetadata => ~cin.tty

\* without a terminal and without a message the call was rejected, the
\* changes already staged
C28_Witness ==
    /\ cin.called
    /\ ~cin.tty
    /\ cin.message = Undef
    /\ cin.type = <<"feat">>
    /\ err = MissingCommitMetadata
    /\ log[1].op = "add"
    /\ log[1].res = "ok"

\* C28 as stated: when commitIfDirty fails with UnknownCommitType or
\* MissingCommitMetadata nothing was staged by the call
C28_AsStated ==
    (cin.called /\ Rejected) =>
        \A i \in 1..Len(log) : log[i].op # "add"

----------------------------------------------------------------------------
(* Further properties of the remote and of the branch arguments *)

\* C26 as stated: a name returned by getPreferredRemote is one of the
\* remotes of the repository, whatever the upstream of the current branch
\* is, a local branch with a slash in its name included.
C26_AsStated ==
    (run > 0 /\ pc # "resolve" /\ remote # Null) => SeqContains(remotes, remote)

\* C27: whenever pullIfPossible or pushCurrentBranch is called, by any of
\* the three commands, the branch it is given is the branch checked out at
\* that moment, so the upstream it looks up is the upstream of the branch
\* it pulls or pushes: the probe, the pull and the push it runs name that
\* branch, in to-test on the source branch before the switch and on the
\* target branch after it.
C27_BranchArgIsCurrent ==
    [][(PullStep \/ PushStep) =>
        /\ BranchArg = head
        /\ head \in Branches
        /\ HasUpstream <=> upstream[BranchArg].kind # "none"
        /\ pc \in {"pullTarget", "pushTarget"} <=>
              (cmd = "toTest" /\ head = target /\ source # target)
        /\ \A i \in 1..Len(Added) :
              /\ Added[i].on = head
              /\ Added[i].op \in {"ls-remote", "pull", "push"}
              /\ Added[i].branch \in {head, <<>>}
              /\ Added[i].branch = <<>> =>
                    Added[i].op = "pull" /\ upstream[head].kind # "none"
    ]_vars

\* to-test has switched to the target branch and pushed it under its name
C27_Witness ==
    /\ cmd = "toTest"
    /\ source # target
    /\ head = target
    /\ pc = "restore"
    /\ primary = NoErr
    /\ log[Len(log)].op = "push"
    /\ log[Len(log)].on = target
    /\ log[Len(log)].branch = target
    /\ log[Len(log)].res = "ok"

----------------------------------------------------------------------------
(* Further properties of runCdDeployment *)

NotifyCalls == SelectSeq(cd.calls, LAMBDA c : c.hook = "notify")

RollbackCalls == SelectSeq(cd.calls, LAMBDA c : c.hook = "rollback")

\* one of preflight, build, deploy and verify threw
StageThrew ==
    \E i \in 1..Len(cd.calls) :
        /\ cd.calls[i].hook \in {"preflight", "build", "deploy", "verify"}
        /\ cd.calls[i].res = "throw"

\* C29 as stated: notify is called at most once in a run, with ok = true
\* exactly when none of preflight, build, deploy and verify threw, and with
\* ok = false otherwise.
C29_AsStated ==
    /\ Len(NotifyCalls) <= 1
    /\ \A i \in 1..Len(NotifyCalls) :
          (NotifyCalls[i].ok = "true") <=> ~StageThrew

\* C30 as stated: rollback is called only when one of preflight, build,
\* deploy and verify threw; when all four succeeded the call does not throw
\* and returns what deploy returned.
C30_AsStated ==
    /\ RollbackCalls # <<>> => StageThrew
    /\ ~StageThrew =>
          /\ cd.pc # "thrown"
          /\ cd.pc = "returned" => cd.returned = cd.result

====
